---- MODULE Spec2Model ----
(***************************************************************************)
(* dnsbalancer: the backend health-state machine (backend/backend.go), the *)
(* health monitor (lb/healthcheck.go) and the round-robin selector,        *)
(* forwarding path and shutdown of the load balancer (lb/loadbalancer.go). *)
(*                                                                         *)
(* Backends are numbered 0..n-1 in configured order: the spec's B1 is      *)
(* backend 0, B2 is backend 1.                                             *)
(***************************************************************************)
EXTENDS Integers, Sequences, FiniteSets, TLC

(* ---- bounds of the model ---- *)
\* the selector on its own (SpecSelect)
MaxBackends == 3
MaxCalls == 3
\* the health checker on its own (SpecHealth)
MaxThreshold == 3
MaxRounds == 5
MaxInFlight == 2
\* the whole system (Spec)
SysBackends == 2
SysRequests == 1
SysRounds == 2
SysThreshold == 2
\* end-to-end scenario B (SpecScenarioB)
ScenarioRounds == 5
ScenarioRequests == 2
\* shutdown (SpecStop)
StopRequests == 2
StopRounds == 2
\* calls of Backend methods running together on one backend (SpecMutex)
MaxOps == 4
\* response codes a probe reply may carry (SpecProbe): 0 .. MaxRcode
MaxRcode == 5
WrapWindow == 2
MaxApiCalls == 4
MaxReadErrors == 2
LiveBackends == 2
LiveRequests == 2
LiveRounds == 2

(* ---- program constants ---- *)
\* currentIndex is a uint32, kept as two 16-bit halves [hi, lo] (value
\* hi * 2^16 + lo) because 2^32 exceeds TLC's integers
Half == 65536
\* DefaultConfig: FailureThreshold 3, SuccessThreshold 2
DefaultFailureThreshold == 3
DefaultSuccessThreshold == 2

None == -1
Pending == -2
\* dns.RcodeSuccess (NOERROR) and dns.RcodeNameError (NXDOMAIN)
RcodeSuccess == 0
RcodeNameError == 3

VARIABLES
    n,                \* len(lb.backends)
    failThreshold,    \* hc.config.FailureThreshold
    successThreshold, \* hc.config.SuccessThreshold
    hcEnabled,        \* cfg.HealthCheck.Enabled (lb.healthChecker != nil)
    failBehavior,     \* lb.failBehavior
    backends,         \* lb.backends: index -> Backend fields
    currentIndex,     \* lb.currentIndex
    lifecycle,        \* "new" after New, "running" after Start, then the steps of Stop
    hc,               \* position of the health checker goroutine
    rounds,           \* number of checkAllBackends calls made so far
    probes,           \* index -> the checkBackend goroutines in flight
    up,               \* environment: whether the backend answers
    received,         \* number of datagrams the accept loop has read
    tasks,            \* request number -> the handleQuery goroutine
    run,              \* history: the run of equal outcomes recorded last on each backend
    recorded,         \* history: number of outcomes recorded on each backend
    flips,            \* history: number of times Healthy changed
    logged,           \* number of transition log events of checkBackend
    ret,              \* the values the last RecordHealthCheck on each backend returned
    downSince,        \* history: rounds launched when the backend went down
    overlap,          \* history: two selectBackend calls were ever in progress together
    acceptor,         \* position of the acceptQueries goroutine
    shutdown,         \* the log event Stop ended with
    atStop,           \* history: the handleQuery goroutines in flight when Stop was called
    mu,               \* b.mu of one backend, at the grain of its lock operations
    ops,              \* the calls of Backend methods in progress at that grain
    probe,            \* one HealthCheck call: what the network did and what it returned
    buffer,           \* acceptQueries: the datagram held by its receive buffer
    readErrors        \* acceptQueries: "Error reading from UDP socket" events logged

cfgVars == <<n, failThreshold, successThreshold, hcEnabled, failBehavior>>
hcVars == <<hc, rounds, probes>>
lbVars == <<currentIndex, received, tasks, overlap>>
histVars == <<run, recorded, flips, logged, ret, downSince>>
stopVars == <<acceptor, shutdown, atStop>>
muVars == <<mu, ops>>
ioVars == <<buffer, readErrors>>
vars == <<cfgVars, backends, lifecycle, hcVars, up, lbVars, histVars, stopVars, muVars, probe, ioVars>>

Idx == 0 .. (n - 1)

(* ------------------------------------------------------------------ *)
(* Backend                                                            *)
(* ------------------------------------------------------------------ *)

\* LastCheck and LastFail hold the zero time.Time until a statement assigns
\* time.Now() to them; such a value is told apart by the statement it comes
\* from, AtCheck in RecordHealthCheck and AtQuery in MarkFailure.
ZeroTime == "zero"
AtCheck == "check"
AtQuery == "query"

NewBackend ==
    [Healthy |-> TRUE, ConsecutiveFails |-> 0, ConsecutiveSuccess |-> 0,
     LastCheck |-> ZeroTime, LastFail |-> ZeroTime,
     TotalQueries |-> 0, TotalFailures |-> 0]

\* A selector that takes every backend for healthy.
IsHealthyAlways(b) == TRUE

IsHealthy(b) == b.Healthy

MarkQueryAttempt(b) == [b EXCEPT !.TotalQueries = @ + 1]

\* A MarkFailure that counts the failure as one more attempt as well.
MarkFailureCountsAttempt(b) ==
    [b EXCEPT !.TotalFailures = @ + 1, !.TotalQueries = @ + 1, !.LastFail = AtQuery]

\* A MarkFailure that takes the backend out of rotation.
MarkFailureUnhealthy(b) ==
    [b EXCEPT !.TotalFailures = @ + 1, !.LastFail = AtQuery, !.Healthy = FALSE]

MarkFailure(b) == [b EXCEPT !.TotalFailures = @ + 1, !.LastFail = AtQuery]

\* UpdateHealth: b.Healthy = healthy
UpdateHealth(b, healthy) == [b EXCEPT !.Healthy = healthy]

\* A success that flips Healthy as soon as one success is seen (no hysteresis).
RecordHealthCheckNoThreshold(b, success, failThr, successThr) ==
    IF success
    THEN LET b1 == [b EXCEPT !.LastCheck = AtCheck,
                             !.ConsecutiveSuccess = @ + 1, !.ConsecutiveFails = 0]
         IN  IF ~b1.Healthy
             THEN [b |-> [b1 EXCEPT !.Healthy = TRUE], healthChanged |-> TRUE, newHealth |-> TRUE]
             ELSE [b |-> b1, healthChanged |-> FALSE, newHealth |-> b1.Healthy]
    ELSE LET b1 == [b EXCEPT !.LastCheck = AtCheck, !.ConsecutiveFails = @ + 1,
                             !.ConsecutiveSuccess = 0, !.LastFail = AtCheck]
         IN  IF b1.Healthy /\ b1.ConsecutiveFails >= failThr
             THEN [b |-> [b1 EXCEPT !.Healthy = FALSE], healthChanged |-> TRUE, newHealth |-> FALSE]
             ELSE [b |-> b1, healthChanged |-> FALSE, newHealth |-> b1.Healthy]

\* A failure that does not reset ConsecutiveSuccess.
RecordHealthCheckNoReset(b, success, failThr, successThr) ==
    IF success
    THEN LET b1 == [b EXCEPT !.LastCheck = AtCheck,
                             !.ConsecutiveSuccess = @ + 1, !.ConsecutiveFails = 0]
         IN  IF ~b1.Healthy /\ b1.ConsecutiveSuccess >= successThr
             THEN [b |-> [b1 EXCEPT !.Healthy = TRUE], healthChanged |-> TRUE, newHealth |-> TRUE]
             ELSE [b |-> b1, healthChanged |-> FALSE, newHealth |-> b1.Healthy]
    ELSE LET b1 == [b EXCEPT !.LastCheck = AtCheck, !.ConsecutiveFails = @ + 1,
                             !.LastFail = AtCheck]
         IN  IF b1.Healthy /\ b1.ConsecutiveFails >= failThr
             THEN [b |-> [b1 EXCEPT !.Healthy = FALSE], healthChanged |-> TRUE, newHealth |-> FALSE]
             ELSE [b |-> b1, healthChanged |-> FALSE, newHealth |-> b1.Healthy]

\* healthChanged reported on every failure recorded while unhealthy.
RecordHealthCheckAlwaysChanged(b, success, failThr, successThr) ==
    IF success
    THEN LET b1 == [b EXCEPT !.LastCheck = AtCheck,
                             !.ConsecutiveSuccess = @ + 1, !.ConsecutiveFails = 0]
         IN  IF ~b1.Healthy /\ b1.ConsecutiveSuccess >= successThr
             THEN [b |-> [b1 EXCEPT !.Healthy = TRUE], healthChanged |-> TRUE, newHealth |-> TRUE]
             ELSE [b |-> b1, healthChanged |-> FALSE, newHealth |-> b1.Healthy]
    ELSE LET b1 == [b EXCEPT !.LastCheck = AtCheck, !.ConsecutiveFails = @ + 1,
                             !.ConsecutiveSuccess = 0, !.LastFail = AtCheck]
         IN  IF b1.ConsecutiveFails >= failThr
             THEN [b |-> [b1 EXCEPT !.Healthy = FALSE], healthChanged |-> TRUE, newHealth |-> FALSE]
             ELSE [b |-> b1, healthChanged |-> FALSE, newHealth |-> b1.Healthy]

\* A success that does not reset ConsecutiveFails.
RecordHealthCheckKeepsFails(b, success, failThr, successThr) ==
    IF success
    THEN LET b1 == [b EXCEPT !.LastCheck = AtCheck, !.ConsecutiveSuccess = @ + 1]
         IN  IF ~b1.Healthy /\ b1.ConsecutiveSuccess >= successThr
             THEN [b |-> [b1 EXCEPT !.Healthy = TRUE], healthChanged |-> TRUE, newHealth |-> TRUE]
             ELSE [b |-> b1, healthChanged |-> FALSE, newHealth |-> b1.Healthy]
    ELSE LET b1 == [b EXCEPT !.LastCheck = AtCheck, !.ConsecutiveFails = @ + 1,
                             !.ConsecutiveSuccess = 0, !.LastFail = AtCheck]
         IN  IF b1.Healthy /\ b1.ConsecutiveFails >= failThr
             THEN [b |-> [b1 EXCEPT !.Healthy = FALSE], healthChanged |-> TRUE, newHealth |-> FALSE]
             ELSE [b |-> b1, healthChanged |-> FALSE, newHealth |-> b1.Healthy]

\* A failed probe that is counted in TotalFailures as well.
RecordHealthCheckCountsFailure(b, success, failThr, successThr) ==
    IF success
    THEN LET b1 == [b EXCEPT !.LastCheck = AtCheck,
                             !.ConsecutiveSuccess = @ + 1, !.ConsecutiveFails = 0]
         IN  IF ~b1.Healthy /\ b1.ConsecutiveSuccess >= successThr
             THEN [b |-> [b1 EXCEPT !.Healthy = TRUE], healthChanged |-> TRUE, newHealth |-> TRUE]
             ELSE [b |-> b1, healthChanged |-> FALSE, newHealth |-> b1.Healthy]
    ELSE LET b1 == [b EXCEPT !.LastCheck = AtCheck, !.ConsecutiveFails = @ + 1,
                             !.ConsecutiveSuccess = 0, !.LastFail = AtCheck,
                             !.TotalFailures = @ + 1]
         IN  IF b1.Healthy /\ b1.ConsecutiveFails >= failThr
             THEN [b |-> [b1 EXCEPT !.Healthy = FALSE], healthChanged |-> TRUE, newHealth |-> FALSE]
             ELSE [b |-> b1, healthChanged |-> FALSE, newHealth |-> b1.Healthy]

\* A failure threshold compared with > instead of >=.
RecordHealthCheckLate(b, success, failThr, successThr) ==
    IF success
    THEN LET b1 == [b EXCEPT !.LastCheck = AtCheck,
                             !.ConsecutiveSuccess = @ + 1, !.ConsecutiveFails = 0]
         IN  IF ~b1.Healthy /\ b1.ConsecutiveSuccess >= successThr
             THEN [b |-> [b1 EXCEPT !.Healthy = TRUE], healthChanged |-> TRUE, newHealth |-> TRUE]
             ELSE [b |-> b1, healthChanged |-> FALSE, newHealth |-> b1.Healthy]
    ELSE LET b1 == [b EXCEPT !.LastCheck = AtCheck, !.ConsecutiveFails = @ + 1,
                             !.ConsecutiveSuccess = 0, !.LastFail = AtCheck]
         IN  IF b1.Healthy /\ b1.ConsecutiveFails > failThr
             THEN [b |-> [b1 EXCEPT !.Healthy = FALSE], healthChanged |-> TRUE, newHealth |-> FALSE]
             ELSE [b |-> b1, healthChanged |-> FALSE, newHealth |-> b1.Healthy]

\* RecordHealthCheck: the backend after the call and the two return values.
RecordHealthCheck(b, success, failThr, successThr) ==
    IF success
    THEN LET b1 == [b EXCEPT !.LastCheck = AtCheck,
                             !.ConsecutiveSuccess = @ + 1, !.ConsecutiveFails = 0]
         IN  IF ~b1.Healthy /\ b1.ConsecutiveSuccess >= successThr
             THEN [b |-> [b1 EXCEPT !.Healthy = TRUE], healthChanged |-> TRUE, newHealth |-> TRUE]
             ELSE [b |-> b1, healthChanged |-> FALSE, newHealth |-> b1.Healthy]
    ELSE LET b1 == [b EXCEPT !.LastCheck = AtCheck, !.ConsecutiveFails = @ + 1,
                             !.ConsecutiveSuccess = 0, !.LastFail = AtCheck]
         IN  IF b1.Healthy /\ b1.ConsecutiveFails >= failThr
             THEN [b |-> [b1 EXCEPT !.Healthy = FALSE], healthChanged |-> TRUE, newHealth |-> FALSE]
             ELSE [b |-> b1, healthChanged |-> FALSE, newHealth |-> b1.Healthy]



(* ------------------------------------------------------------------ *)
(* Backend methods at the grain of b.mu                               *)
(* ------------------------------------------------------------------ *)
\* Each method takes b.mu (Lock for the writers, RLock for IsHealthy and
\* Stats), reads and writes the fields in separate steps and releases the
\* mutex on return. mu.w is the call holding the write lock (0 for none),
\* mu.r the calls holding a read lock; the backend is backends[0].

NoLock == [w |-> 0, r |-> {}]

\* A Lock that never waits.
CanLockAlways(m) == TRUE

\* b.mu.Lock() proceeds when no call holds the mutex
CanLock(m) == m.w = 0 /\ m.r = {}

\* b.mu.RLock() proceeds when no call holds the write lock
CanRLock(m) == m.w = 0

Writers == {"MarkQueryAttempt", "MarkFailure", "RecordSuccess", "RecordFailure"}
Readers == {"IsHealthy", "Stats"}
Recorders == {"RecordSuccess", "RecordFailure"}

\* A call that has not taken the mutex yet: val is the counter value it
\* loads, snap what a reader reads, at the backend when it took the lock.
NewOp(kind) == [kind |-> kind, pc |-> "lock", val |-> 0, snap |-> NewBackend, at |-> NewBackend]

\* A goroutine calls a method of the backend.
OpCall(kind, maxOps) ==
    /\ Len(ops) < maxOps
    /\ ops' = Append(ops, NewOp(kind))
    /\ UNCHANGED <<stopVars, mu, probe, cfgVars, ioVars, backends, lifecycle, hcVars, up, lbVars, histVars>>

\* b.mu.Lock()
OpLock(i) ==
    /\ ops[i].kind \in Writers
    /\ ops[i].pc = "lock"
    /\ CanLock(mu)
    /\ mu' = [mu EXCEPT !.w = i]
    /\ ops' = [ops EXCEPT ![i] = [@ EXCEPT !.pc = "load", !.at = backends[0]]]
    /\ UNCHANGED <<stopVars, probe, cfgVars, ioVars, backends, lifecycle, hcVars, up, lbVars, histVars>>

\* the read half of b.TotalQueries++, b.TotalFailures++,
\* b.ConsecutiveSuccess++ or b.ConsecutiveFails++
OpLoad(i) ==
    /\ ops[i].pc = "load"
    /\ ops' = [ops EXCEPT ![i] =
                 [@ EXCEPT !.pc = "store",
                           !.val = CASE ops[i].kind = "MarkQueryAttempt" -> backends[0].TotalQueries
                                     [] ops[i].kind = "MarkFailure" -> backends[0].TotalFailures
                                     [] ops[i].kind = "RecordSuccess" -> backends[0].ConsecutiveSuccess
                                     [] ops[i].kind = "RecordFailure" -> backends[0].ConsecutiveFails]]
    /\ UNCHANGED <<stopVars, mu, probe, cfgVars, ioVars, backends, lifecycle, hcVars, up, lbVars, histVars>>

\* the write half of the increment, with the time stamps the method sets;
\* RecordHealthCheck also resets the opposite consecutive counter
OpStore(i) ==
    /\ ops[i].pc = "store"
    /\ backends' = [backends EXCEPT ![0] =
            CASE ops[i].kind = "MarkQueryAttempt" -> [@ EXCEPT !.TotalQueries = ops[i].val + 1]
              [] ops[i].kind = "MarkFailure" ->
                    [@ EXCEPT !.TotalFailures = ops[i].val + 1, !.LastFail = AtQuery]
              [] ops[i].kind = "RecordSuccess" ->
                    [@ EXCEPT !.LastCheck = AtCheck,
                              !.ConsecutiveSuccess = ops[i].val + 1, !.ConsecutiveFails = 0]
              [] ops[i].kind = "RecordFailure" ->
                    [@ EXCEPT !.LastCheck = AtCheck, !.ConsecutiveFails = ops[i].val + 1,
                              !.ConsecutiveSuccess = 0, !.LastFail = AtCheck]]
    /\ ops' = [ops EXCEPT ![i].pc = IF ops[i].kind \in Recorders THEN "flag" ELSE "unlock"]
    /\ UNCHANGED <<stopVars, mu, probe, cfgVars, ioVars, lifecycle, hcVars, up, lbVars, histVars>>

\* RecordHealthCheck: the threshold test and the write of b.Healthy
OpFlag(i) ==
    /\ ops[i].pc = "flag"
    /\ backends' = [backends EXCEPT ![0] =
            IF ops[i].kind = "RecordSuccess"
            THEN IF ~@.Healthy /\ @.ConsecutiveSuccess >= successThreshold
                 THEN [@ EXCEPT !.Healthy = TRUE] ELSE @
            ELSE IF @.Healthy /\ @.ConsecutiveFails >= failThreshold
                 THEN [@ EXCEPT !.Healthy = FALSE] ELSE @]
    /\ ops' = [ops EXCEPT ![i].pc = "unlock"]
    /\ UNCHANGED <<stopVars, mu, probe, cfgVars, ioVars, lifecycle, hcVars, up, lbVars, histVars>>

\* defer b.mu.Unlock()
OpUnlock(i) ==
    /\ ops[i].pc = "unlock"
    /\ mu' = [mu EXCEPT !.w = 0]
    /\ ops' = [ops EXCEPT ![i].pc = "done"]
    /\ UNCHANGED <<stopVars, probe, cfgVars, ioVars, backends, lifecycle, hcVars, up, lbVars, histVars>>

\* b.mu.RLock()
OpRLock(i) ==
    /\ ops[i].kind \in Readers
    /\ ops[i].pc = "lock"
    /\ CanRLock(mu)
    /\ mu' = [mu EXCEPT !.r = @ \cup {i}]
    /\ ops' = [ops EXCEPT ![i].pc = "read"]
    /\ UNCHANGED <<stopVars, probe, cfgVars, ioVars, backends, lifecycle, hcVars, up, lbVars, histVars>>

\* IsHealthy reads b.Healthy, Stats reads every field
OpRead(i) ==
    /\ ops[i].pc = "read"
    /\ ops' = [ops EXCEPT ![i] = [@ EXCEPT !.pc = "runlock", !.snap = backends[0]]]
    /\ UNCHANGED <<stopVars, mu, probe, cfgVars, ioVars, backends, lifecycle, hcVars, up, lbVars, histVars>>

\* defer b.mu.RUnlock()
OpRUnlock(i) ==
    /\ ops[i].pc = "runlock"
    /\ mu' = [mu EXCEPT !.r = @ \ {i}]
    /\ ops' = [ops EXCEPT ![i].pc = "done"]
    /\ UNCHANGED <<stopVars, probe, cfgVars, ioVars, backends, lifecycle, hcVars, up, lbVars, histVars>>

(* ------------------------------------------------------------------ *)
(* Backend.HealthCheck                                                *)
(* ------------------------------------------------------------------ *)

\* What the library and the network do to one HealthCheck call, stage by
\* stage: m.Pack, net.DialTimeout, conn.SetDeadline, conn.Write succeed or
\* not, conn.Read returns a datagram, times out or fails, the datagram
\* unpacks as a DNS message or not, and carries a response code.
ProbeIOs ==
    [pack : BOOLEAN, dial : BOOLEAN, setDeadline : BOOLEAN, write : BOOLEAN,
     read : {"reply", "timeout", "error"}, unpack : BOOLEAN, rcode : 0 .. MaxRcode]

\* A probe that accepts every reply that unpacks, whatever its response code.
HealthCheckAnyRcode(io) ==
    IF ~io.pack THEN "failed to pack DNS query"
    ELSE IF ~io.dial THEN "failed to connect"
    ELSE IF ~io.setDeadline THEN "failed to set deadline"
    ELSE IF ~io.write THEN "failed to send query"
    ELSE IF io.read # "reply" THEN "failed to read response"
    ELSE IF ~io.unpack THEN "invalid DNS response"
    ELSE "nil"

\* HealthCheck: the error it returns, "nil" for none
HealthCheck(io) ==
    IF ~io.pack THEN "failed to pack DNS query"
    ELSE IF ~io.dial THEN "failed to connect"
    ELSE IF ~io.setDeadline THEN "failed to set deadline"
    ELSE IF ~io.write THEN "failed to send query"
    ELSE IF io.read # "reply" THEN "failed to read response"
    ELSE IF ~io.unpack THEN "invalid DNS response"
    ELSE IF io.rcode # RcodeSuccess /\ io.rcode # RcodeNameError THEN "DNS error response"
    ELSE "nil"

NoProbe == [err |-> "not called"]

\* One call of HealthCheck against whatever the network does.
HealthCheckCall ==
    /\ probe = NoProbe
    /\ \E io \in ProbeIOs : probe' = [io |-> io, err |-> HealthCheck(io)]
    /\ UNCHANGED <<stopVars, muVars, cfgVars, ioVars, backends, lifecycle, hcVars, up, lbVars, histVars>>

(* ------------------------------------------------------------------ *)
(* Selector                                                           *)
(* ------------------------------------------------------------------ *)

Uint32(v) == [hi |-> v \div Half, lo |-> v % Half]

\* An increment that is lost: the cursor keeps its value.
AddUint32Lost(cur) == cur

\* An increment by two.
AddUint32Twice(cur) ==
    IF cur.lo + 2 < Half
    THEN [cur EXCEPT !.lo = @ + 2]
    ELSE [hi |-> (cur.hi + 1) % Half, lo |-> (cur.lo + 2) % Half]

\* atomic.AddUint32(&lb.currentIndex, 1): the new value, wrapping at 2^32
AddUint32(cur) ==
    IF cur.lo + 1 < Half
    THEN [cur EXCEPT !.lo = @ + 1]
    ELSE [hi |-> (cur.hi + 1) % Half, lo |-> 0]

\* An index that walks the backends in reverse order.
IndexOfReversed(cur, len) ==
    (len - 1) - (((cur.hi % len) * (Half % len) + (cur.lo % len)) % len)

\* idx := <new value> % uint32(len(lb.backends))
IndexOf(cur, len) == ((cur.hi % len) * (Half % len) + (cur.lo % len)) % len

\* The k-th datagram the listener receives: its bytes and its sender. The
\* datagrams are told apart by their number.
NoDatagram == 0
Datagram(k) == k
Sender(k) == k

\* The reply backend b sends to the query bytes q.
AnswerOf(b, q) == [from |-> b, re |-> q]

\* A task that keeps the accept loop's buffer instead of a copy of it.
Shared == -3
QueryOfAliased(buf) == Shared

\* query := make([]byte, n); copy(query, buffer[:n])
QueryOf(buf) == buf

\* The bytes a task's query slice holds now.
Payload(t) == IF t.query = Shared THEN buffer ELSE t.query

\* A reply addressed to the sender of the datagram received last.
ReplyToLatest(t) == Sender(received)

\* The address handleQuery passes to WriteToUDP: its clientAddr argument.
ReplyTo(t) == t.client

\* A handleQuery goroutine at its first statement. tried is the set of
\* indices its selectBackend call has tested, wire the bytes its ForwardQuery
\* sends, response what ForwardQuery returned, wrote the datagrams it wrote
\* on the listener, late whether it was launched after lb.cancel().
NewTask ==
    [pc |-> "select", i |-> 0, idx |-> 0, sel |-> Pending, backend |-> None,
     result |-> "none", client |-> 0, query |-> NoDatagram, tried |-> {},
     wire |-> NoDatagram, response |-> NoDatagram, wrote |-> << >>, late |-> FALSE]

\* go lb.handleQuery(query, clientAddr) for the k-th datagram, held by buf
Launch(k, buf) == [NewTask EXCEPT !.client = Sender(k), !.query = QueryOf(buf)]

InSelect(t) == t.pc \in {"select", "test"}

(* ------------------------------------------------------------------ *)
(* Construction and Start                                             *)
(* ------------------------------------------------------------------ *)

\* lifecycle: "new" after New, "failed" after a Start that returned an
\* error, "running" after a Start that returned nil, then inside Stop
\* "cancelled" after lb.cancel(), "closed" after lb.listener.Close() (Stop
\* waits in its select), "stopped" after Stop returned.
\* <-lb.ctx.Done() is ready
Cancelled == lifecycle \in {"cancelled", "closed", "stopped"}
\* lb.listener has been closed
ListenerClosed == lifecycle \in {"closed", "stopped"}

NotDown == [at |-> -1, healthy |-> FALSE]
NoRun == [ok |-> TRUE, len |-> 0]
RunAfter(r, success) ==
    IF r.len > 0 /\ r.ok = success
    THEN [r EXCEPT !.len = @ + 1]
    ELSE [ok |-> success, len |-> 1]

\* The state New returns: every backend healthy with zero counters, cursor 0,
\* for a configuration drawn from the given sets.
Fresh(ns, enabled, failThrs, successThrs, behaviors) ==
    /\ n \in ns
    /\ hcEnabled \in enabled
    /\ failThreshold \in IF hcEnabled THEN failThrs ELSE {DefaultFailureThreshold}
    /\ successThreshold \in IF hcEnabled THEN successThrs ELSE {DefaultSuccessThreshold}
    /\ failBehavior \in behaviors
    /\ backends = [b \in Idx |-> NewBackend]
    /\ currentIndex = Uint32(0)
    /\ lifecycle = "new"
    /\ hc = "off"
    /\ rounds = 0
    /\ probes = [b \in Idx |-> {}]
    /\ up \in [Idx -> BOOLEAN]
    /\ received = 0
    /\ tasks = << >>
    /\ run = [b \in Idx |-> NoRun]
    /\ recorded = [b \in Idx |-> 0]
    /\ flips = [b \in Idx |-> 0]
    /\ logged = [b \in Idx |-> 0]
    /\ ret = [b \in Idx |-> [healthChanged |-> FALSE, newHealth |-> TRUE]]
    /\ downSince = [b \in Idx |-> IF up[b] THEN NotDown ELSE [at |-> 0, healthy |-> TRUE]]
    /\ overlap = FALSE
    /\ acceptor = "off"
    /\ shutdown = "none"
    /\ atStop = {}
    /\ mu = NoLock
    /\ ops = << >>
    /\ probe = NoProbe
    /\ buffer = NoDatagram
    /\ readErrors = 0

\* A Start that starts the health checker whether or not it is configured.
StartAlwaysMonitors ==
    /\ lifecycle = "new"
    /\ lifecycle' = "running"
    /\ hc' = "initial"
    /\ acceptor' = "running"
    /\ UNCHANGED <<shutdown, atStop, muVars, probe, cfgVars, ioVars, backends, rounds, probes, up, lbVars, histVars>>

\* LoadBalancer.Start: the health checker goroutine is started if configured,
\* then the accept loop.
Start ==
    /\ lifecycle = "new"
    /\ lifecycle' = "running"
    /\ hc' = IF hcEnabled THEN "initial" ELSE "off"
    /\ acceptor' = "running"
    /\ UNCHANGED <<shutdown, atStop, muVars, probe, cfgVars, ioVars, backends, rounds, probes, up, lbVars, histVars>>

\* A Start that starts the health checker before it creates the listener.
StartFailsMonitorRuns ==
    /\ lifecycle = "new"
    /\ lifecycle' = "failed"
    /\ hc' = IF hcEnabled THEN "initial" ELSE "off"
    /\ UNCHANGED <<stopVars, muVars, probe, cfgVars, ioVars, backends, rounds, probes, up, lbVars, histVars>>

\* LoadBalancer.Start: net.ResolveUDPAddr or net.ListenUDP fails; the error
\* is returned before anything is started.
StartFails ==
    /\ lifecycle = "new"
    /\ lifecycle' = "failed"
    /\ UNCHANGED <<stopVars, muVars, probe, cfgVars, ioVars, backends, hcVars, up, lbVars, histVars>>

(* ------------------------------------------------------------------ *)
(* Health checker                                                     *)
(* ------------------------------------------------------------------ *)

NewProbe(r) == [round |-> r, phase |-> "probing"]

\* A round that probes the first backend only.
checkAllBackendsFirstOnly(maxRounds) ==
    /\ rounds < maxRounds
    /\ \A b \in Idx : Cardinality(probes[b]) < MaxInFlight
    /\ rounds' = rounds + 1
    /\ probes' = [b \in Idx |-> IF b = 0 THEN probes[b] \cup {NewProbe(rounds + 1)} ELSE probes[b]]

\* checkAllBackends: one checkBackend goroutine per backend, none awaited.
checkAllBackends(maxRounds) ==
    /\ rounds < maxRounds
    /\ \A b \in Idx : Cardinality(probes[b]) < MaxInFlight
    /\ rounds' = rounds + 1
    /\ probes' = [b \in Idx |-> probes[b] \cup {NewProbe(rounds + 1)}]

\* HealthChecker.Start, goroutine: the initial round.
HCInitialRound(maxRounds) ==
    /\ hc = "initial"
    /\ checkAllBackends(maxRounds)
    /\ hc' = "loop"
    /\ UNCHANGED <<stopVars, muVars, probe, cfgVars, ioVars, backends, lifecycle, up, lbVars, histVars>>

\* HealthChecker.Start, goroutine: case <-ticker.C
HCTick(maxRounds) ==
    /\ hc = "loop"
    /\ checkAllBackends(maxRounds)
    /\ UNCHANGED <<stopVars, muVars, probe, cfgVars, ioVars, backends, lifecycle, hc, up, lbVars, histVars>>

\* Probes run one after the other in the order of lb.backends: the probe of
\* a backend returns only when those of the backends before it have ended.
HealthCheckReturnsInOrder(b, p) ==
    /\ p \in probes[b]
    /\ p.phase = "probing"
    /\ \A c \in Idx : c < b => \A q \in probes[c] : q.round > p.round
    /\ probes' = [probes EXCEPT ![b] =
                    (@ \ {p}) \cup {[p EXCEPT !.phase = IF up[b] THEN "ok" ELSE "fail"]}]
    /\ UNCHANGED <<stopVars, muVars, probe, cfgVars, ioVars, backends, lifecycle, hc, rounds, up, lbVars, histVars>>

\* A HealthCheck that calls b.MarkFailure() on its error returns, as
\* ForwardQuery does.
HealthCheckReturnsMarks(b, p) ==
    /\ p \in probes[b]
    /\ p.phase = "probing"
    /\ probes' = [probes EXCEPT ![b] =
                    (@ \ {p}) \cup {[p EXCEPT !.phase = IF up[b] THEN "ok" ELSE "fail"]}]
    /\ backends' = IF up[b] THEN backends ELSE [backends EXCEPT ![b] = MarkFailure(@)]
    /\ UNCHANGED <<stopVars, muVars, probe, cfgVars, ioVars, lifecycle, hc, rounds, up, lbVars, histVars>>

\* Backend.HealthCheck returns: nil exactly when the backend answered.
HealthCheckReturns(b, p) ==
    /\ p \in probes[b]
    /\ p.phase = "probing"
    /\ probes' = [probes EXCEPT ![b] =
                    (@ \ {p}) \cup {[p EXCEPT !.phase = IF up[b] THEN "ok" ELSE "fail"]}]
    /\ UNCHANGED <<stopVars, muVars, probe, cfgVars, ioVars, backends, lifecycle, hc, rounds, up, lbVars, histVars>>

\* A checkBackend that drops its outcome once the context is cancelled.
CheckBackendRecordUnlessCancelled(b, p) ==
    /\ p \in probes[b]
    /\ p.phase \in {"ok", "fail"}
    /\ IF Cancelled
       THEN UNCHANGED <<backends, ret, logged, flips, run, recorded>>
       ELSE LET r == RecordHealthCheck(backends[b], p.phase = "ok", failThreshold, successThreshold)
            IN  /\ backends' = [backends EXCEPT ![b] = r.b]
                /\ ret' = [ret EXCEPT ![b] = [healthChanged |-> r.healthChanged, newHealth |-> r.newHealth]]
                /\ logged' = [logged EXCEPT ![b] = IF r.healthChanged THEN @ + 1 ELSE @]
                /\ flips' = [flips EXCEPT ![b] = IF r.b.Healthy # backends[b].Healthy THEN @ + 1 ELSE @]
                /\ run' = [run EXCEPT ![b] = RunAfter(@, p.phase = "ok")]
                /\ recorded' = [recorded EXCEPT ![b] = @ + 1]
    /\ probes' = [probes EXCEPT ![b] = @ \ {p}]
    /\ UNCHANGED <<stopVars, muVars, probe, cfgVars, ioVars, lifecycle, hc, rounds, up, lbVars, downSince>>

\* checkBackend after HealthCheck returned: b.RecordHealthCheck(success,
\* FailureThreshold, SuccessThreshold), then one transition log event if
\* healthChanged, and the goroutine ends.
CheckBackendRecord(b, p) ==
    /\ p \in probes[b]
    /\ p.phase \in {"ok", "fail"}
    /\ LET r == RecordHealthCheck(backends[b], p.phase = "ok", failThreshold, successThreshold)
       IN  /\ backends' = [backends EXCEPT ![b] = r.b]
           /\ ret' = [ret EXCEPT ![b] = [healthChanged |-> r.healthChanged, newHealth |-> r.newHealth]]
           /\ logged' = [logged EXCEPT ![b] = IF r.healthChanged THEN @ + 1 ELSE @]
           /\ flips' = [flips EXCEPT ![b] = IF r.b.Healthy # backends[b].Healthy THEN @ + 1 ELSE @]
    /\ probes' = [probes EXCEPT ![b] = @ \ {p}]
    /\ run' = [run EXCEPT ![b] = RunAfter(@, p.phase = "ok")]
    /\ recorded' = [recorded EXCEPT ![b] = @ + 1]
    /\ UNCHANGED <<stopVars, muVars, probe, cfgVars, ioVars, lifecycle, hc, rounds, up, lbVars, downSince>>

\* HealthChecker.Start, goroutine: case <-ctx.Done(): ticker.Stop(), return
HCStop ==
    /\ hc = "loop"
    /\ Cancelled
    /\ hc' = "stopped"
    /\ UNCHANGED <<stopVars, muVars, probe, cfgVars, ioVars, backends, lifecycle, rounds, probes, up, lbVars, histVars>>

(* ------------------------------------------------------------------ *)
(* Environment: the upstream servers                                  *)
(* ------------------------------------------------------------------ *)

BackendGoesDown(b) ==
    /\ up[b]
    /\ up' = [up EXCEPT ![b] = FALSE]
    /\ downSince' = [downSince EXCEPT ![b] = [at |-> rounds, healthy |-> backends[b].Healthy]]
    /\ UNCHANGED <<stopVars, muVars, probe, cfgVars, ioVars, backends, lifecycle, hcVars, lbVars, run, recorded, flips, logged, ret>>

BackendComesUp(b) ==
    /\ ~up[b]
    /\ up' = [up EXCEPT ![b] = TRUE]
    /\ downSince' = [downSince EXCEPT ![b] = NotDown]
    /\ UNCHANGED <<stopVars, muVars, probe, cfgVars, ioVars, backends, lifecycle, hcVars, lbVars, run, recorded, flips, logged, ret>>

(* ------------------------------------------------------------------ *)
(* Dispatcher: accept loop and forwarding tasks                       *)
(* ------------------------------------------------------------------ *)

\* acceptQueries: ReadFromUDP returned a datagram; go lb.handleQuery(query, clientAddr)
AcceptQuery(maxRequests) ==
    /\ lifecycle = "running"
    /\ acceptor = "running"
    /\ received < maxRequests
    /\ received' = received + 1
    /\ buffer' = Datagram(received + 1)
    /\ tasks' = Append(tasks, Launch(received + 1, buffer'))
    /\ UNCHANGED readErrors
    /\ overlap' = (overlap \/ \E k \in 1 .. received : InSelect(tasks[k]))
    /\ UNCHANGED <<stopVars, muVars, probe, cfgVars, backends, currentIndex, lifecycle, hcVars, up, histVars>>

\* An accept loop that returns on any read error.
AcceptReadErrorExits(maxErrors) ==
    /\ lifecycle = "running"
    /\ acceptor = "running"
    /\ readErrors < maxErrors
    /\ readErrors' = readErrors + 1
    /\ acceptor' = "exited"
    /\ UNCHANGED <<shutdown, atStop, buffer, muVars, probe, cfgVars, backends, lifecycle, hcVars, up, lbVars, histVars>>

\* acceptQueries: ReadFromUDP returned an error that is not a timeout while
\* the context is not cancelled: log "Error reading from UDP socket", continue
AcceptReadError(maxErrors) ==
    /\ lifecycle = "running"
    /\ acceptor = "running"
    /\ readErrors < maxErrors
    /\ readErrors' = readErrors + 1
    /\ UNCHANGED <<stopVars, buffer, muVars, probe, cfgVars, backends, lifecycle, hcVars, up, lbVars, histVars>>

\* A handleQuery that tries lb.backends[0] whatever the fail behaviour.
NoBackendAlwaysOpen(t) ==
    IF n = 0
    THEN [t EXCEPT !.sel = None, !.pc = "done", !.result = "dropped"]
    ELSE [t EXCEPT !.sel = None, !.pc = "forward", !.backend = 0]

\* A fail-open that falls back to the last backend.
NoBackendLast(t) ==
    IF failBehavior = "closed" \/ n = 0
    THEN [t EXCEPT !.sel = None, !.pc = "done", !.result = "dropped"]
    ELSE [t EXCEPT !.sel = None, !.pc = "forward", !.backend = n - 1]

\* handleQuery after selectBackend returned nil: fail-closed drops the query,
\* fail-open tries lb.backends[0].
NoBackend(t) ==
    IF failBehavior = "closed" \/ n = 0
    THEN [t EXCEPT !.sel = None, !.pc = "done", !.result = "dropped"]
    ELSE [t EXCEPT !.sel = None, !.pc = "forward", !.backend = 0]

\* A selectBackend that increments the cursor in its first attempt only and
\* walks on from that index by itself.
SelectAddOncePerCall(k) ==
    /\ k \in 1 .. received
    /\ tasks[k].pc = "select"
    /\ IF n = 0
       THEN /\ tasks' = [tasks EXCEPT ![k] = NoBackend(@)]
            /\ UNCHANGED currentIndex
       ELSE /\ currentIndex' = IF tasks[k].i = 0 THEN AddUint32(currentIndex) ELSE currentIndex
            /\ LET next == IF tasks[k].i = 0
                           THEN IndexOf(currentIndex', n)
                           ELSE (tasks[k].idx + 1) % n
               IN  tasks' = [tasks EXCEPT ![k] =
                               [@ EXCEPT !.pc = "test", !.idx = next,
                                         !.tried = @ \cup {next}]]
    /\ UNCHANGED <<stopVars, muVars, probe, cfgVars, ioVars, backends, lifecycle, hcVars, up, received, overlap, histVars>>

\* selectBackend: len(lb.backends) == 0, or the atomic increment of one attempt.
SelectAdd(k) ==
    /\ k \in 1 .. received
    /\ tasks[k].pc = "select"
    /\ IF n = 0
       THEN /\ tasks' = [tasks EXCEPT ![k] = NoBackend(@)]
            /\ UNCHANGED currentIndex
       ELSE /\ currentIndex' = AddUint32(currentIndex)
            /\ tasks' = [tasks EXCEPT ![k] =
                           [@ EXCEPT !.pc = "test", !.idx = IndexOf(currentIndex', n),
                                     !.tried = @ \cup {IndexOf(currentIndex', n)}]]
    /\ UNCHANGED <<stopVars, muVars, probe, cfgVars, ioVars, backends, lifecycle, hcVars, up, received, overlap, histVars>>

\* A selectBackend whose loop runs while i <= maxAttempts.
SelectTestOneMore(k) ==
    /\ k \in 1 .. received
    /\ tasks[k].pc = "test"
    /\ LET t == tasks[k]
       IN  tasks' = [tasks EXCEPT ![k] =
                IF IsHealthy(backends[t.idx])
                THEN [t EXCEPT !.sel = t.idx, !.backend = t.idx, !.pc = "forward"]
                ELSE IF t.i + 1 <= n
                     THEN [t EXCEPT !.i = @ + 1, !.pc = "select"]
                     ELSE NoBackend([t EXCEPT !.i = @ + 1])]
    /\ UNCHANGED <<stopVars, muVars, probe, cfgVars, ioVars, backends, currentIndex, lifecycle, hcVars, up, received, overlap, histVars>>

\* selectBackend: backend.IsHealthy() of the attempt, i++ and the loop test.
SelectTest(k) ==
    /\ k \in 1 .. received
    /\ tasks[k].pc = "test"
    /\ LET t == tasks[k]
       IN  tasks' = [tasks EXCEPT ![k] =
                IF IsHealthy(backends[t.idx])
                THEN [t EXCEPT !.sel = t.idx, !.backend = t.idx, !.pc = "forward"]
                ELSE IF t.i + 1 < n
                     THEN [t EXCEPT !.i = @ + 1, !.pc = "select"]
                     ELSE NoBackend([t EXCEPT !.i = @ + 1])]
    /\ UNCHANGED <<stopVars, muVars, probe, cfgVars, ioVars, backends, currentIndex, lifecycle, hcVars, up, received, overlap, histVars>>

\* ForwardQuery: b.MarkQueryAttempt()
ForwardStart(k) ==
    /\ k \in 1 .. received
    /\ tasks[k].pc = "forward"
    /\ backends' = [backends EXCEPT ![tasks[k].backend] = MarkQueryAttempt(@)]
    /\ tasks' = [tasks EXCEPT ![k] = [@ EXCEPT !.pc = "io", !.wire = Payload(tasks[k])]]
    /\ UNCHANGED <<stopVars, muVars, probe, cfgVars, ioVars, currentIndex, lifecycle, hcVars, up, received, overlap, histVars>>

\* ForwardQuery: connect, set-deadline, write or read error: b.MarkFailure()
ForwardFails(k) ==
    /\ k \in 1 .. received
    /\ tasks[k].pc = "io"
    /\ backends' = [backends EXCEPT ![tasks[k].backend] = MarkFailure(@)]
    /\ tasks' = [tasks EXCEPT ![k] = [@ EXCEPT !.pc = "done", !.result = "failed"]]
    /\ UNCHANGED <<stopVars, muVars, probe, cfgVars, ioVars, currentIndex, lifecycle, hcVars, up, received, overlap, histVars>>

\* ForwardQuery: the backend's reply was read
ForwardReturns(k) ==
    /\ k \in 1 .. received
    /\ tasks[k].pc = "io"
    /\ up[tasks[k].backend]
    /\ tasks' = [tasks EXCEPT ![k] =
                   [@ EXCEPT !.pc = "reply", !.response = AnswerOf(tasks[k].backend, tasks[k].wire)]]
    /\ UNCHANGED <<stopVars, muVars, probe, cfgVars, ioVars, backends, currentIndex, lifecycle, hcVars, up, received, overlap, histVars>>

\* handleQuery: lb.listener.WriteToUDP(response, clientAddr), which fails on
\* a listener that Stop has closed
Reply(k) ==
    /\ k \in 1 .. received
    /\ tasks[k].pc = "reply"
    /\ tasks' = [tasks EXCEPT ![k] =
                   [@ EXCEPT !.pc = "done",
                             !.result = IF ListenerClosed THEN "write failed" ELSE "replied",
                             !.wrote = IF ListenerClosed
                                       THEN @
                                       ELSE Append(@, [to |-> ReplyTo(tasks[k]),
                                                       bytes |-> tasks[k].response])]]
    /\ UNCHANGED <<stopVars, muVars, probe, cfgVars, ioVars, backends, currentIndex, lifecycle, hcVars, up, received, overlap, histVars>>

(* ------------------------------------------------------------------ *)
(* Stop                                                               *)
(* ------------------------------------------------------------------ *)

\* Stop: lb.cancel(). The accept loop is at that moment either before its
\* <-lb.ctx.Done() test ("running") or past it, in ReadFromUDP ("reading").
StopCancel ==
    /\ lifecycle = "running"
    /\ lifecycle' = "cancelled"
    /\ acceptor' \in {"running", "reading"}
    /\ atStop' = {k \in 1 .. received : tasks[k].pc # "done"}
    /\ UNCHANGED <<shutdown, muVars, probe, cfgVars, ioVars, backends, hcVars, up, lbVars, histVars>>

\* Stop: lb.listener.Close()
StopClose ==
    /\ lifecycle = "cancelled"
    /\ lifecycle' = "closed"
    /\ UNCHANGED <<stopVars, muVars, probe, cfgVars, ioVars, backends, hcVars, up, lbVars, histVars>>

\* A wait group that counts the handleQuery goroutines only.
WaitGroupTasksOnly == \A k \in 1 .. received : tasks[k].pc = "done"

\* lb.wg: one count for acceptQueries and one per handleQuery not yet returned
WaitGroupZero == acceptor = "exited" /\ \A k \in 1 .. received : tasks[k].pc = "done"

\* Stop: case <-done (lb.wg.Wait() returned), return nil
StopDone ==
    /\ lifecycle = "closed"
    /\ WaitGroupZero
    /\ lifecycle' = "stopped"
    /\ shutdown' = "complete"
    /\ UNCHANGED <<acceptor, atStop, muVars, probe, cfgVars, ioVars, backends, hcVars, up, lbVars, histVars>>

\* A Stop whose select has no timer case.
StopTimeoutNever ==
    /\ lifecycle = "closed"
    /\ WaitGroupZero
    /\ lifecycle' = "stopped"
    /\ shutdown' = "timeout"
    /\ UNCHANGED <<acceptor, atStop, muVars, probe, cfgVars, ioVars, backends, hcVars, up, lbVars, histVars>>

\* Stop: case <-time.After(5 * time.Second), return nil
StopTimeout ==
    /\ lifecycle = "closed"
    /\ lifecycle' = "stopped"
    /\ shutdown' = "timeout"
    /\ UNCHANGED <<acceptor, atStop, muVars, probe, cfgVars, ioVars, backends, hcVars, up, lbVars, histVars>>

\* An accept loop that notices the cancellation at its loop head only.
AcceptorExitAtHeadOnly ==
    /\ Cancelled
    /\ acceptor = "running"
    /\ acceptor' = "exited"
    /\ UNCHANGED <<shutdown, atStop, muVars, probe, cfgVars, ioVars, backends, lifecycle, hcVars, up, lbVars, histVars>>

\* An accept loop that logs the read error of the closed listener and goes
\* back to its loop head before it looks at the context.
AcceptorExitLogsClosedRead ==
    /\ Cancelled
    /\ \/ /\ acceptor = "running"
          /\ acceptor' = "exited"
          /\ UNCHANGED readErrors
       \/ /\ acceptor = "reading" /\ ListenerClosed
          /\ acceptor' = "running"
          /\ readErrors' = readErrors + 1
    /\ UNCHANGED <<shutdown, atStop, muVars, probe, cfgVars, buffer, backends, lifecycle, hcVars, up, lbVars, histVars>>

\* acceptQueries: <-lb.ctx.Done() at the loop head, or ReadFromUDP failing on
\* the closed listener followed by <-lb.ctx.Done(); return, lb.wg.Done()
AcceptorExit ==
    /\ Cancelled
    /\ \/ acceptor = "running"
       \/ acceptor = "reading" /\ ListenerClosed
    /\ acceptor' = "exited"
    /\ UNCHANGED <<shutdown, atStop, muVars, probe, cfgVars, ioVars, backends, lifecycle, hcVars, up, lbVars, histVars>>

\* An accept loop that goes from a datagram straight back into ReadFromUDP,
\* without the <-lb.ctx.Done() test at its loop head.
AcceptLateKeepsReading(maxRequests) ==
    /\ acceptor = "reading"
    /\ received < maxRequests
    /\ received' = received + 1
    /\ buffer' = Datagram(received + 1)
    /\ tasks' = Append(tasks, [Launch(received + 1, buffer') EXCEPT !.late = Cancelled])
    /\ UNCHANGED readErrors
    /\ overlap' = (overlap \/ \E k \in 1 .. received : InSelect(tasks[k]))
    /\ acceptor' = "reading"
    /\ UNCHANGED <<shutdown, atStop, muVars, probe, cfgVars, backends, currentIndex, lifecycle, hcVars, up, histVars>>

\* acceptQueries: the ReadFromUDP that was in progress when Stop cancelled
\* the context returns a datagram; go lb.handleQuery(query, clientAddr)
AcceptLate(maxRequests) ==
    /\ acceptor = "reading"
    /\ received < maxRequests
    /\ received' = received + 1
    /\ buffer' = Datagram(received + 1)
    /\ tasks' = Append(tasks, [Launch(received + 1, buffer') EXCEPT !.late = Cancelled])
    /\ UNCHANGED readErrors
    /\ overlap' = (overlap \/ \E k \in 1 .. received : InSelect(tasks[k]))
    /\ acceptor' = "running"
    /\ UNCHANGED <<shutdown, atStop, muVars, probe, cfgVars, backends, currentIndex, lifecycle, hcVars, up, histVars>>

\* acceptQueries: that ReadFromUDP reaches its one-second read deadline; continue
AcceptReadTimeout ==
    /\ acceptor = "reading"
    /\ ~ListenerClosed
    /\ acceptor' = "running"
    /\ UNCHANGED <<shutdown, atStop, muVars, probe, cfgVars, ioVars, backends, lifecycle, hcVars, up, lbVars, histVars>>

(* ------------------------------------------------------------------ *)
(* Specifications                                                     *)
(* ------------------------------------------------------------------ *)

NextDispatch(maxRequests) ==
    \/ AcceptQuery(maxRequests)
    \/ \E k \in 1 .. received : SelectAdd(k)
    \/ \E k \in 1 .. received : SelectTest(k)
    \/ \E k \in 1 .. received : ForwardStart(k)
    \/ \E k \in 1 .. received : ForwardFails(k)
    \/ \E k \in 1 .. received : ForwardReturns(k)
    \/ \E k \in 1 .. received : Reply(k)

NextHealth(maxRounds) ==
    \/ HCInitialRound(maxRounds)
    \/ HCTick(maxRounds)
    \/ \E b \in Idx : \E p \in probes[b] : HealthCheckReturns(b, p)
    \/ \E b \in Idx : \E p \in probes[b] : CheckBackendRecord(b, p)
    \/ \E b \in Idx : BackendGoesDown(b)
    \/ \E b \in Idx : BackendComesUp(b)

\* The whole system, from construction.
Init ==
    Fresh(1 .. SysBackends, BOOLEAN, 1 .. SysThreshold, 1 .. SysThreshold, {"closed", "open"})
Next == Start \/ StartFails \/ NextDispatch(SysRequests) \/ NextHealth(SysRounds)
Spec == Init /\ [][Next]_vars

\* The health checker over one backend, no datagram arriving: the checker
\* treats every backend alike and shares nothing between them.
InitHealth == Fresh({1}, {TRUE}, 1 .. MaxThreshold, 1 .. MaxThreshold, {"closed"})
NextOfHealth == Start \/ NextHealth(MaxRounds)
SpecHealth == InitHealth /\ [][NextOfHealth]_vars

\* The selector with the health flags held constant: the load balancer is
\* running, the cursor is one of cursors, some backends have been marked
\* unhealthy (by failThreshold failed probes each) and no probe is recorded
\* meanwhile. InitSelect is that selector with the cursor still 0.
Running(cursors) ==
    /\ n \in 0 .. MaxBackends
    /\ \E unhealthy \in SUBSET Idx :
          /\ hcEnabled = (unhealthy # {})
          /\ backends = [b \in Idx |->
                IF b \in unhealthy
                THEN [NewBackend EXCEPT !.Healthy = FALSE,
                                        !.ConsecutiveFails = DefaultFailureThreshold,
                                        !.LastCheck = AtCheck, !.LastFail = AtCheck]
                ELSE NewBackend]
          /\ up = [b \in Idx |-> b \notin unhealthy]
          /\ run = [b \in Idx |-> IF b \in unhealthy
                                  THEN [ok |-> FALSE, len |-> DefaultFailureThreshold]
                                  ELSE NoRun]
          /\ recorded = [b \in Idx |-> IF b \in unhealthy THEN DefaultFailureThreshold ELSE 0]
          /\ flips = [b \in Idx |-> IF b \in unhealthy THEN 1 ELSE 0]
          /\ logged = [b \in Idx |-> IF b \in unhealthy THEN 1 ELSE 0]
          /\ ret = [b \in Idx |-> [healthChanged |-> b \in unhealthy, newHealth |-> b \notin unhealthy]]
          /\ downSince = [b \in Idx |-> IF b \in unhealthy
                                        THEN [at |-> 0, healthy |-> TRUE] ELSE NotDown]
          /\ rounds = IF unhealthy = {} THEN 0 ELSE DefaultFailureThreshold
    /\ failThreshold = DefaultFailureThreshold
    /\ successThreshold = DefaultSuccessThreshold
    /\ failBehavior \in {"closed", "open"}
    /\ currentIndex \in cursors
    /\ lifecycle = "running"
    /\ hc = IF hcEnabled THEN "loop" ELSE "off"
    /\ probes = [b \in Idx |-> {}]
    /\ received = 0
    /\ tasks = << >>
    /\ overlap = FALSE
    /\ acceptor = "running"
    /\ shutdown = "none"
    /\ atStop = {}
    /\ mu = NoLock
    /\ ops = << >>
    /\ probe = NoProbe
    /\ buffer = NoDatagram
    /\ readErrors = 0
InitSelect == Running({Uint32(0)})
NextSelect == NextDispatch(MaxCalls)
SpecSelect == InitSelect /\ [][NextSelect]_vars

\* The dispatcher outside shutdown: datagrams and read errors arriving at
\* the listener while forwarding tasks run.
NextAccept == NextDispatch(MaxCalls) \/ AcceptReadError(MaxReadErrors)
SpecAccept == InitSelect /\ [][NextAccept]_vars

\* The selector after 2^32 - 1 - d increments of the cursor, d at most
\* WrapWindow, every backend healthy: the next calls take the cursor over
\* its maximum.
MaxUint32 == [hi |-> Half - 1, lo |-> Half - 1]
InitWrap ==
    /\ Running({[MaxUint32 EXCEPT !.lo = @ - d] : d \in 0 .. WrapWindow})
    /\ n >= 1
    /\ \A b \in Idx : backends[b].Healthy
NextWrap == NextDispatch(MaxCalls)
SpecWrap == InitWrap /\ [][NextWrap]_vars

\* The selector while the health flags change: zero or two backends, each
\* answering or not at first and recovering at any moment, every probe
\* outcome deciding the flag (both thresholds 1), two requests, and probe
\* rounds running beside the selectBackend calls.
InitSelectLive == Fresh({0, LiveBackends}, {TRUE}, {1}, {1}, {"closed"})
NextSelectLive ==
    \/ Start
    \/ NextDispatch(LiveRequests)
    \/ HCInitialRound(LiveRounds)
    \/ HCTick(LiveRounds)
    \/ \E b \in Idx : \E p \in probes[b] : HealthCheckReturns(b, p)
    \/ \E b \in Idx : \E p \in probes[b] : CheckBackendRecord(b, p)
    \/ \E b \in Idx : BackendComesUp(b)
SpecSelectHealth == InitSelectLive /\ [][NextSelectLive]_vars
\* A selectBackend call is a loop of an atomic add and a read under a read
\* lock that no writer holds for more than a few statements: the goroutine
\* running it is scheduled again until it returns.
SpecSelectLive ==
    /\ SpecSelectHealth
    /\ \A k \in 1 .. LiveRequests : WF_vars(SelectAdd(k)) /\ WF_vars(SelectTest(k))

\* End-to-end scenario B: two backends, the default thresholds (3 failures,
\* 2 successes), B1 (backend 0) failing from the first round and recovering
\* at some later moment (or never), B2 answering throughout.
InitScenarioB ==
    /\ Fresh({2}, {TRUE}, {DefaultFailureThreshold}, {DefaultSuccessThreshold}, {"closed"})
    /\ up = [b \in Idx |-> b # 0]
NextScenarioB ==
    \/ Start
    \/ NextDispatch(ScenarioRequests)
    \/ HCInitialRound(ScenarioRounds)
    \/ HCTick(ScenarioRounds)
    \/ \E b \in Idx : \E p \in probes[b] : HealthCheckReturns(b, p)
    \/ \E b \in Idx : \E p \in probes[b] : CheckBackendRecord(b, p)
    \/ BackendComesUp(0)
SpecScenarioB == InitScenarioB /\ [][NextScenarioB]_vars

\* Shutdown: one backend that answers or not, requests arriving, the health
\* checker running or disabled, and Stop called at any moment after Start.
InitStop ==
    Fresh({1}, BOOLEAN, {DefaultFailureThreshold}, {DefaultSuccessThreshold}, {"closed"})
NextStop ==
    \/ Start
    \/ NextDispatch(StopRequests)
    \/ AcceptLate(StopRequests)
    \/ AcceptReadTimeout
    \/ AcceptorExit
    \/ HCInitialRound(StopRounds)
    \/ HCTick(StopRounds)
    \/ \E b \in Idx : \E p \in probes[b] : HealthCheckReturns(b, p)
    \/ \E b \in Idx : \E p \in probes[b] : CheckBackendRecord(b, p)
    \/ HCStop
    \/ StopCancel
    \/ StopClose
    \/ StopDone
    \/ StopTimeout
SpecStop == InitStop /\ [][NextStop]_vars
\* Stop is straight-line code up to its select, and the timer of the select
\* fires after five seconds whatever the goroutines do.
SpecStopLive == SpecStop /\ WF_vars(StopClose) /\ WF_vars(StopTimeout)

\* Shutdown with a health checker whose every probe outcome decides the
\* flag (both thresholds 1).
InitStopProbe == Fresh({1}, {TRUE}, {1}, {1}, {"closed"})
SpecStopProbe == InitStopProbe /\ [][NextStop]_vars

\* Shutdown of a load balancer whose listener also returns read errors
\* before Stop is called.
NextStopErrors == NextStop \/ AcceptReadError(MaxReadErrors)
SpecStopErrors == InitStop /\ [][NextStopErrors]_vars

\* Stop goes on to lb.listener.Close() right after lb.cancel(), and the
\* acceptQueries goroutine is runnable whenever its read has returned: a read
\* on the closed listener returns an error at once.
SpecAcceptorLive == SpecStop /\ WF_vars(StopClose) /\ WF_vars(AcceptorExit)

\* The exported methods of one Backend, each called as a whole by any
\* holder of the *Backend, in any order; ops is the list of the calls made.
Called(kind) == [NewOp(kind) EXCEPT !.pc = "done", !.at = backends[0], !.snap = backends[0]]

CallMarkQueryAttempt(maxCalls) ==
    /\ Len(ops) < maxCalls
    /\ ops' = Append(ops, Called("MarkQueryAttempt"))
    /\ backends' = [backends EXCEPT ![0] = MarkQueryAttempt(@)]
    /\ UNCHANGED <<stopVars, mu, probe, cfgVars, ioVars, lifecycle, hcVars, up, lbVars, histVars>>

CallMarkFailure(maxCalls) ==
    /\ Len(ops) < maxCalls
    /\ ops' = Append(ops, Called("MarkFailure"))
    /\ backends' = [backends EXCEPT ![0] = MarkFailure(@)]
    /\ UNCHANGED <<stopVars, mu, probe, cfgVars, ioVars, lifecycle, hcVars, up, lbVars, histVars>>

\* UpdateHealth logs one event when the flag changes.
CallUpdateHealth(healthy, maxCalls) ==
    /\ Len(ops) < maxCalls
    /\ ops' = Append(ops, Called(IF healthy THEN "UpdateHealth(true)" ELSE "UpdateHealth(false)"))
    /\ backends' = [backends EXCEPT ![0] = UpdateHealth(@, healthy)]
    /\ flips' = [flips EXCEPT ![0] = IF backends[0].Healthy # healthy THEN @ + 1 ELSE @]
    /\ logged' = [logged EXCEPT ![0] = IF backends[0].Healthy # healthy THEN @ + 1 ELSE @]
    /\ UNCHANGED <<stopVars, mu, probe, cfgVars, ioVars, lifecycle, hcVars, up, lbVars,
                   run, recorded, ret, downSince>>

CallRecordHealthCheck(success, maxCalls) ==
    /\ Len(ops) < maxCalls
    /\ ops' = Append(ops, Called(IF success THEN "RecordSuccess" ELSE "RecordFailure"))
    /\ LET r == RecordHealthCheck(backends[0], success, failThreshold, successThreshold)
       IN  /\ backends' = [backends EXCEPT ![0] = r.b]
           /\ ret' = [ret EXCEPT ![0] = [healthChanged |-> r.healthChanged, newHealth |-> r.newHealth]]
           /\ flips' = [flips EXCEPT ![0] = IF r.b.Healthy # backends[0].Healthy THEN @ + 1 ELSE @]
    /\ run' = [run EXCEPT ![0] = RunAfter(@, success)]
    /\ recorded' = [recorded EXCEPT ![0] = @ + 1]
    /\ UNCHANGED <<stopVars, mu, probe, cfgVars, ioVars, lifecycle, hcVars, up, lbVars, logged, downSince>>

CallIsHealthy(maxCalls) ==
    /\ Len(ops) < maxCalls
    /\ ops' = Append(ops, Called("IsHealthy"))
    /\ UNCHANGED <<stopVars, mu, probe, cfgVars, ioVars, backends, lifecycle, hcVars, up, lbVars, histVars>>

NextBackend ==
    \/ CallMarkQueryAttempt(MaxApiCalls)
    \/ CallMarkFailure(MaxApiCalls)
    \/ \E healthy \in BOOLEAN : CallUpdateHealth(healthy, MaxApiCalls)
    \/ \E success \in BOOLEAN : CallRecordHealthCheck(success, MaxApiCalls)
    \/ CallIsHealthy(MaxApiCalls)

\* Calls of the methods of one backend running together.
InitMutex ==
    /\ Fresh({1}, {TRUE}, 1 .. SysThreshold, 1 .. SysThreshold, {"closed"})
    /\ up = [b \in Idx |-> TRUE]
NextMutex ==
    \/ \E kind \in Writers \cup Readers : OpCall(kind, MaxOps)
    \/ \E i \in DOMAIN ops : OpLock(i)
    \/ \E i \in DOMAIN ops : OpLoad(i)
    \/ \E i \in DOMAIN ops : OpStore(i)
    \/ \E i \in DOMAIN ops : OpFlag(i)
    \/ \E i \in DOMAIN ops : OpUnlock(i)
    \/ \E i \in DOMAIN ops : OpRLock(i)
    \/ \E i \in DOMAIN ops : OpRead(i)
    \/ \E i \in DOMAIN ops : OpRUnlock(i)
SpecMutex == InitMutex /\ [][NextMutex]_vars

\* The methods of one backend called one after the other, from any caller.
SpecBackend == InitMutex /\ [][NextBackend]_vars

\* One HealthCheck call against every behaviour of the network.
InitProbe ==
    /\ Fresh({1}, {TRUE}, {DefaultFailureThreshold}, {DefaultSuccessThreshold}, {"closed"})
    /\ up = [b \in Idx |-> TRUE]
NextProbe == HealthCheckCall
SpecProbe == InitProbe /\ [][NextProbe]_vars


(* ------------------------------------------------------------------ *)
(* Claims                                                             *)
(* ------------------------------------------------------------------ *)

RecordedOn(b) == recorded'[b] = recorded[b] + 1

\* C1: Healthy changes from false to true only in a step that records a
\* success and leaves ConsecutiveSuccess >= successThreshold, and from true to
\* false only in a step that records a failure and leaves ConsecutiveFails >=
\* failThreshold; no other step of the running system (forwards included)
\* changes it.
C1_HealthyChangesOnlyAtThreshold ==
    [][\A b \in Idx :
          /\ (~backends[b].Healthy /\ backends'[b].Healthy) =>
                /\ RecordedOn(b)
                /\ run'[b].ok
                /\ backends'[b].ConsecutiveSuccess >= successThreshold
          /\ (backends[b].Healthy /\ ~backends'[b].Healthy) =>
                /\ RecordedOn(b)
                /\ ~run'[b].ok
                /\ backends'[b].ConsecutiveFails >= failThreshold]_vars

\* C1 witness: a backend went unhealthy and came back while requests were
\* being forwarded to it.
C1_Witness ==
    \E b \in Idx : flips[b] >= 2 /\ backends[b].Healthy /\ backends[b].TotalQueries > 0


Calls == 1 .. received
Returned(k) == tasks[k].sel # Pending
AllUnhealthy == \A b \in Idx : ~backends[b].Healthy
HealthyOnes == {b \in Idx : backends[b].Healthy}

\* C2: (health flags constant, any number of concurrent calls) a selectBackend
\* call returns none if and only if every backend is unhealthy, and what it
\* returns otherwise is a healthy backend.
C2_NoneIffAllUnhealthy ==
    \A k \in Calls :
        Returned(k) =>
            /\ (tasks[k].sel = None) <=> AllUnhealthy
            /\ tasks[k].sel # None => backends[tasks[k].sel].Healthy

\* C3 as claimed: under the closed policy every forward starts (ForwardQuery
\* calls MarkQueryAttempt) on a backend whose Healthy flag is true at that
\* moment.
C3_ForwardTargetHealthyAtStart ==
    [][\A k \in Calls :
          (failBehavior = "closed" /\ tasks[k].pc = "forward" /\ tasks'[k].pc = "io")
              => backends[tasks[k].backend].Healthy]_vars

\* C3 as amended: under the closed policy every forward targets the backend
\* the task's own selectBackend call returned, and that call returned it in a
\* step that read its Healthy flag as true.
C3_ForwardTargetTestedHealthy ==
    [][\A k \in Calls :
          failBehavior = "closed" =>
              /\ (tasks[k].pc = "test" /\ tasks'[k].pc = "forward") =>
                    /\ tasks'[k].backend = tasks[k].idx
                    /\ backends[tasks[k].idx].Healthy
              /\ (tasks[k].pc = "forward" /\ tasks'[k].pc = "io") =>
                    /\ tasks[k].backend = tasks[k].sel
                    /\ tasks[k].sel = tasks[k].idx
                    /\ backends'[tasks[k].backend].TotalQueries
                          = backends[tasks[k].backend].TotalQueries + 1]_vars

\* C3 witness: under the closed policy a forward is in progress on a backend
\* that has been marked unhealthy since it was selected.
C3_Witness ==
    \E k \in Calls :
        /\ failBehavior = "closed"
        /\ tasks[k].pc = "io"
        /\ ~backends[tasks[k].backend].Healthy


\* The rounds launched after backend b went down, up to the failThreshold-th.
FailingRounds(b) == (downSince[b].at + 1) .. (downSince[b].at + failThreshold)

\* Backend b was healthy when it went down, has been down since, and the
\* failThreshold-th round after that has been launched and the probes of b of
\* these rounds have all been recorded.
DeadlinePassed(b) ==
    /\ ~up[b]
    /\ downSince[b].healthy
    /\ rounds >= downSince[b].at + failThreshold
    /\ \A p \in probes[b] : p.round \notin FailingRounds(b)

\* C4 as claimed: a healthy backend that starts failing every probe is
\* unhealthy no later than when the failThreshold-th round launched after the
\* failure began has been launched and its probes recorded, and Healthy never
\* turns false before failThreshold consecutive failures have been recorded.
C4_UnhealthyWithinThresholdRounds ==
    [][\A b \in Idx :
          /\ DeadlinePassed(b)' => ~backends'[b].Healthy
          /\ (backends[b].Healthy /\ ~backends'[b].Healthy) =>
                (~run'[b].ok /\ run'[b].len >= failThreshold)]_vars


\* Length of the run of consecutive failures (successes) recorded last on b.
TrailingFails(b) == IF run[b].ok THEN 0 ELSE run[b].len
TrailingSuccesses(b) == IF run[b].ok THEN run[b].len ELSE 0

\* C5: for all thresholds >= 1, once failThreshold consecutive failures have
\* been recorded the backend is unhealthy; Healthy turns from false to true
\* only when successThreshold consecutive successes have been recorded, and a
\* failure recorded in between sets ConsecutiveSuccess back to 0.
C5_Hysteresis ==
    [][\A b \in Idx :
          /\ TrailingFails(b)' >= failThreshold => ~backends'[b].Healthy
          /\ (~backends[b].Healthy /\ backends'[b].Healthy) =>
                TrailingSuccesses(b)' >= successThreshold
          /\ (~backends[b].Healthy /\ TrailingSuccesses(b)' < successThreshold) =>
                ~backends'[b].Healthy
          /\ (RecordedOn(b) /\ ~run'[b].ok) => backends'[b].ConsecutiveSuccess = 0]_vars

\* C5 witness: an unhealthy backend, successThreshold 2, that recorded a
\* success, then a failure, then a success again, and is still unhealthy.
C5_Witness ==
    \E b \in Idx :
        /\ successThreshold >= 2
        /\ ~backends[b].Healthy
        /\ TrailingSuccesses(b) = 1
        /\ backends[b].ConsecutiveSuccess = 1
        /\ recorded[b] >= failThreshold + 3

\* C6: RecordHealthCheck returns healthChanged = TRUE exactly when Healthy
\* after the call differs from Healthy before it, its second value is Healthy
\* after the call, and checkBackend has logged exactly one transition event
\* per change of Healthy.
C6_ChangedExactlyOnTransition ==
    [][\A b \in Idx :
          /\ RecordedOn(b) =>
                /\ ret'[b].healthChanged = (backends'[b].Healthy # backends[b].Healthy)
                /\ ret'[b].newHealth = backends'[b].Healthy
          /\ logged'[b] = flips'[b]]_vars

\* C6 witness: after a transition to unhealthy was reported, a further
\* failure was recorded and reported healthChanged = FALSE.
C6_Witness ==
    \E b \in Idx :
        /\ flips[b] = 1
        /\ logged[b] = 1
        /\ ~backends[b].Healthy
        /\ TrailingFails(b) > failThreshold
        /\ ~ret[b].healthChanged


Forwarded(k) == tasks[k].backend # None

\* C7 as claimed: two backends, both healthy, health checking disabled, a
\* fresh load balancer and sequential requests: request k goes to B1
\* (backend 0) when k is odd and to B2 (backend 1) when k is even.
C7_AlternatesFromB1 ==
    (n = 2 /\ ~hcEnabled /\ ~overlap) =>
        \A k \in Calls :
            Forwarded(k) => tasks[k].backend = (IF k % 2 = 1 THEN 0 ELSE 1)

\* C7 as amended: in the same setting the requests alternate strictly with no
\* skips, starting with B2: request k goes to B2 (backend 1) when k is odd and
\* to B1 (backend 0) when k is even.
C7_AlternatesFromB2 ==
    (n = 2 /\ ~hcEnabled /\ ~overlap) =>
        \A k \in Calls :
            /\ Returned(k) => Forwarded(k)
            /\ Forwarded(k) => tasks[k].backend = (IF k % 2 = 1 THEN 1 ELSE 0)

\* C7 witness: three sequential requests have been forwarded by a fresh load
\* balancer with two healthy backends and no health checker.
C7_Witness ==
    /\ n = 2 /\ ~hcEnabled /\ ~overlap
    /\ received >= 3
    /\ \A k \in Calls : Forwarded(k) /\ tasks[k].pc = "done"

\* Number of steps from backend j forward, cyclically, to backend b (n for b = j).
Dist(j, b) == ((b - j - 1 + n) % n) + 1

\* The first healthy backend after backend j in configured cyclic order.
FirstHealthyAfter(j) ==
    CHOOSE b \in HealthyOnes : \A c \in HealthyOnes : Dist(j, b) <= Dist(j, c)

\* C8: with the health flags fixed, at least one healthy backend and calls that
\* do not overlap, every call returns a healthy backend, and each call after
\* the first returns the first healthy backend after the one the previous
\* call returned, in configured cyclic order.
C8_SequentialRoundRobin ==
    (~overlap /\ ~AllUnhealthy) =>
        \A k \in Calls :
            Returned(k) =>
                /\ tasks[k].sel \in HealthyOnes
                /\ k > 1 => tasks[k].sel = FirstHealthyAfter(tasks[k - 1].sel)

\* C8 witness: three sequential calls have returned over three backends of
\* which the middle one is unhealthy.
C8_Witness ==
    /\ ~overlap
    /\ n = 3
    /\ HealthyOnes = {0, 2}
    /\ received >= 3
    /\ \A k \in Calls : Returned(k)

\* Number of calls that returned backend b.
TimesReturned(b) == Cardinality({k \in Calls : tasks[k].sel = b})

\* C9: with the health flags fixed and the cursor not wrapped, once all the
\* (possibly concurrent) calls have returned, the numbers of times any two
\* healthy backends were returned differ by at most 1.
C9_EvenDistribution ==
    (currentIndex.hi = 0 /\ \A k \in Calls : Returned(k)) =>
        \A a, b \in HealthyOnes : TimesReturned(a) - TimesReturned(b) <= 1

\* C9 witness: three overlapping calls have all returned, over at least two
\* healthy backends and an unhealthy one.
C9_Witness ==
    /\ overlap
    /\ received >= 3
    /\ \A k \in Calls : Returned(k)
    /\ Cardinality(HealthyOnes) >= 2
    /\ HealthyOnes # Idx
    /\ \E a, b \in HealthyOnes : TimesReturned(a) # TimesReturned(b)


\* Every probe of b recorded so far failed, and there are at least three.
FailedFromFirstRound(b) == ~run[b].ok /\ run[b].len = recorded[b] /\ recorded[b] >= 3

\* Task k's selectBackend call reads the Healthy flag of backend b in this step.
Tests(k, b) == tasks[k].pc = "test" /\ tasks[k].idx = b /\ tasks'[k] # tasks[k]

\* C10: two backends, thresholds 3 and 2, B1 failing every probe from the
\* first round: once its third failure is recorded B1 is unhealthy and no
\* selectBackend call returns it while its probes keep failing; once two
\* consecutive successes of B1 are recorded B1 is healthy and a call that
\* tests it returns it.
C10_ScenarioB ==
    [][/\ FailedFromFirstRound(0)' => ~backends'[0].Healthy
       /\ TrailingSuccesses(0)' >= 2 => backends'[0].Healthy
       /\ \A k \in Calls :
             /\ (FailedFromFirstRound(0) /\ Tests(k, 0)) => tasks'[k].sel # 0
             /\ (TrailingSuccesses(0) >= 2 /\ Tests(k, 0)) => tasks'[k].sel = 0]_vars

\* C10 witness: B1 failed its first three probes, was marked unhealthy, then
\* recorded two successes and is healthy again, and a selectBackend call has
\* just returned it.
C10_Witness ==
    /\ flips[0] = 2
    /\ recorded[0] >= 5
    /\ TrailingSuccesses(0) >= 2
    /\ backends[0].ConsecutiveSuccess = TrailingSuccesses(0)
    /\ \E k \in Calls : tasks[k].sel = 0 /\ tasks[k].pc = "forward"


\* Task k's selectBackend call returns nil in this step.
ReturnsNone(k) == tasks[k].sel = Pending /\ tasks'[k].sel = None

\* C11: under the closed policy, the step in which a task's selectBackend
\* call returns none ends the task as dropped with no backend chosen and no
\* backend counter changed, and a dropped task takes no further step (no
\* forward, no reply); the other tasks and the accept loop go on.
C11_ClosedDrops ==
    [][\A k \in Calls :
          failBehavior = "closed" =>
              /\ ReturnsNone(k) =>
                    /\ tasks'[k].pc = "done"
                    /\ tasks'[k].result = "dropped"
                    /\ tasks'[k].backend = None
                    /\ backends' = backends
              /\ tasks[k].result = "dropped" => tasks'[k] = tasks[k]]_vars

\* C11 witness: closed policy, two or more backends all unhealthy, three
\* requests accepted one after the other and every one dropped, no counter
\* touched.
C11_Witness ==
    /\ failBehavior = "closed"
    /\ n >= 2
    /\ AllUnhealthy
    /\ received >= 3
    /\ \A k \in Calls : tasks[k].result = "dropped" /\ tasks[k].pc = "done"
    /\ \A b \in Idx : backends[b].TotalQueries = 0 /\ backends[b].TotalFailures = 0


\* C12: under the open policy (at least one backend configured), the step in
\* which a task's selectBackend call returns none sends the task to forward
\* to backend 0; the task's ForwardQuery raises TotalQueries of backend 0 by
\* one and touches no other backend, and no later step of the task raises
\* any TotalQueries or changes its target.
C12_OpenFallsBack ==
    [][\A k \in Calls :
          (failBehavior = "open" /\ n > 0) =>
              /\ ReturnsNone(k) =>
                    /\ tasks'[k].pc = "forward"
                    /\ tasks'[k].backend = 0
                    /\ backends' = backends
              /\ (tasks[k].sel = None /\ tasks'[k] # tasks[k]) =>
                    /\ tasks'[k].backend = 0
                    /\ \A b \in Idx \ {0} : backends'[b] = backends[b]
                    /\ backends'[0].TotalQueries =
                          backends[0].TotalQueries + (IF tasks[k].pc = "forward" THEN 1 ELSE 0)]_vars

\* C12 witness: open policy, two or more backends all unhealthy, a request
\* has been forwarded to backend 0, which is still unhealthy, and to no other.
C12_Witness ==
    /\ failBehavior = "open"
    /\ n >= 2
    /\ AllUnhealthy
    /\ received = 1
    /\ tasks[1].sel = None
    /\ tasks[1].pc = "done"
    /\ backends[0].TotalQueries = 1
    /\ \A b \in Idx \ {0} : backends[b].TotalQueries = 0


\* The ForwardQuery calls made on backend b so far, and those that returned
\* an error.
Attempts(b) ==
    Cardinality({k \in Calls : tasks[k].backend = b /\ tasks[k].pc \in {"io", "reply", "done"}})
Failures(b) == Cardinality({k \in Calls : tasks[k].backend = b /\ tasks[k].result = "failed"})

\* C13: on every backend TotalQueries is the number of ForwardQuery calls
\* made on it, whatever their outcome, and TotalFailures the number of those
\* that returned an error; a call that returned an error has ended its task
\* (no retry), a call that returned a reply is not counted as a failure.
C13_ForwardCounters ==
    /\ \A b \in Idx :
          /\ backends[b].TotalQueries = Attempts(b)
          /\ backends[b].TotalFailures = Failures(b)
    /\ \A k \in Calls :
          /\ tasks[k].result = "failed" => tasks[k].pc = "done"
          /\ tasks[k].pc = "reply" => tasks[k].result = "none"

\* C13 witness: one backend has had three ForwardQuery calls, of which one
\* returned an error and two returned a reply.
C13_Witness ==
    \E b \in Idx :
        /\ backends[b].TotalQueries = 3
        /\ backends[b].TotalFailures = 1
        /\ Cardinality({k \in Calls : tasks[k].backend = b /\ tasks[k].result = "replied"}) = 2


\* C14: once Stop has cancelled the context it returns, whatever the
\* forwarding tasks do (those whose backend never replies included); it
\* returns by the done case only when the accept loop and every task have
\* finished, by the timer case otherwise, and in both cases with nil.
C14_StopTerminates ==
    /\ (lifecycle = "cancelled") ~> (lifecycle = "stopped")
    /\ [](shutdown = "complete" => WaitGroupZero)
    /\ [](lifecycle = "stopped" <=> shutdown \in {"complete", "timeout"})

\* C14 witness: Stop has returned by its timer while two forwarding tasks
\* that were in flight when it was called still wait for a backend that
\* does not reply.
C14_Witness ==
    /\ lifecycle = "stopped"
    /\ shutdown = "timeout"
    /\ ~up[0]
    /\ Cardinality({k \in atStop : tasks[k].pc = "io"}) >= 2


\* C15 as claimed: a forwarding task that was in flight when Stop was called
\* and that writes its reply before Stop has returned (the backend's reply
\* arrived within the grace period) writes it successfully.
C15_InFlightReplyWritten ==
    [][\A k \in atStop :
          (tasks[k].pc = "reply" /\ tasks'[k].pc = "done" /\ lifecycle # "stopped")
              => tasks'[k].result = "replied"]_vars


\* What the method of call op makes of the backend it found when it took the
\* mutex, as one indivisible update.
Effect(op) ==
    CASE op.kind = "MarkQueryAttempt" -> MarkQueryAttempt(op.at)
      [] op.kind = "MarkFailure" -> MarkFailure(op.at)
      [] op.kind = "RecordSuccess" ->
            RecordHealthCheck(op.at, TRUE, failThreshold, successThreshold).b
      [] op.kind = "RecordFailure" ->
            RecordHealthCheck(op.at, FALSE, failThreshold, successThreshold).b

\* A backend between two RecordHealthCheck calls: the flag agrees with the
\* consecutive counters.
Settled(b) ==
    /\ b.Healthy => b.ConsecutiveFails < failThreshold
    /\ ~b.Healthy => b.ConsecutiveSuccess < successThreshold

\* Number of calls of the given method that have written their counter.
PastStore(kind) ==
    Cardinality({i \in DOMAIN ops : ops[i].kind = kind /\ ops[i].pc \in {"unlock", "done"}})

\* C16: under every interleaving of concurrent calls on one backend,
\* TotalQueries (TotalFailures) is the number of MarkQueryAttempt
\* (MarkFailure) calls that have written it, a writer about to release the
\* mutex leaves exactly the backend its method makes, as one indivisible
\* update, of the backend it found (no update of another call lost or mixed
\* in, consecutive counters included), and what IsHealthy or Stats read is
\* never a backend between the counter update and the flag update of a
\* RecordHealthCheck.
C16_MethodsAtomic ==
    /\ backends[0].TotalQueries = PastStore("MarkQueryAttempt")
    /\ backends[0].TotalFailures = PastStore("MarkFailure")
    /\ \A i \in DOMAIN ops :
          /\ (ops[i].kind \in Writers /\ ops[i].pc = "unlock") => backends[0] = Effect(ops[i])
          /\ (ops[i].kind \in Readers /\ ops[i].pc \in {"runlock", "done"}) => Settled(ops[i].snap)

\* C16 witness: two MarkQueryAttempt calls, a RecordHealthCheck that marked
\* the backend unhealthy and a Stats call ran together and have all
\* returned; Stats saw the backend unhealthy with one of the two attempts
\* counted.
C16_Witness ==
    /\ Len(ops) = 4
    /\ \A i \in DOMAIN ops : ops[i].pc = "done"
    /\ PastStore("MarkQueryAttempt") = 2
    /\ backends[0].TotalQueries = 2
    /\ ~backends[0].Healthy
    /\ \E i \in DOMAIN ops :
          /\ ops[i].kind = "Stats"
          /\ ~ops[i].snap.Healthy
          /\ ops[i].snap.TotalQueries = 1


\* C17: the first round is launched by the health checker goroutine before
\* it enters its loop (before any tick), each later round by one tick of the
\* loop, and every round starts one probe on every backend.
C17_ImmediateRoundThenTicks ==
    [][/\ (hc = "initial" /\ hc' # hc) => (rounds = 0 /\ rounds' = 1 /\ hc' = "loop")
       /\ rounds' # rounds =>
             /\ rounds' = rounds + 1
             /\ hc \in {"initial", "loop"}
             /\ (rounds = 0) <=> (hc = "initial")
             /\ \A b \in Idx :
                   /\ NewProbe(rounds') \in probes'[b]
                   /\ NewProbe(rounds') \notin probes[b]
                   /\ probes'[b] \ {NewProbe(rounds')} = probes[b]
       /\ hc' = "off" => rounds' = 0]_vars

\* C17 witness: two backends, the initial round and one tick round have been
\* launched and both backends have the probe of the second round in flight.
C17_Witness ==
    /\ n = 2
    /\ hc = "loop"
    /\ rounds = 2
    /\ \A b \in Idx : NewProbe(2) \in probes[b]


\* C18 as claimed: no round is launched once the context is cancelled.
C18_NoRoundAfterCancel ==
    [][rounds' # rounds => ~Cancelled]_vars


\* C19: whatever the other probes are doing (a probe of another backend
\* waiting for its timeout included), a probe waiting for its reply can
\* return, a probe that has its outcome can record it, and the loop can
\* launch the next round.
C19_ProbesIndependent ==
    /\ \A b \in Idx : \A p \in probes[b] :
          /\ p.phase = "probing" => ENABLED HealthCheckReturns(b, p)
          /\ p.phase \in {"ok", "fail"} => ENABLED CheckBackendRecord(b, p)
    /\ (hc = "loop" /\ rounds < SysRounds) => ENABLED HCTick(SysRounds)

\* C19 witness: the probe of round 1 on backend 0 is still waiting while two
\* rounds have been launched and backend 1 has recorded the outcomes of both.
C19_Witness ==
    /\ n = 2
    /\ rounds = 2
    /\ [round |-> 1, phase |-> "probing"] \in probes[0]
    /\ recorded[0] = 0
    /\ recorded[1] = 2


\* A reply datagram was read before the deadline.
ReplyRead(io) == io.pack /\ io.dial /\ io.setDeadline /\ io.write /\ io.read = "reply"

\* C20: HealthCheck returns nil if and only if a reply was read before the
\* deadline, it unpacks as a DNS message and its response code is NOERROR or
\* NXDOMAIN; every connect, deadline, write or read error, every reply that
\* does not unpack and every other response code gives an error.
C20_ProbeVerdict ==
    probe # NoProbe =>
        /\ (probe.err = "nil") <=>
              /\ ReplyRead(probe.io)
              /\ probe.io.unpack
              /\ probe.io.rcode \in {RcodeSuccess, RcodeNameError}
        /\ (~probe.io.dial \/ ~probe.io.setDeadline \/ ~probe.io.write
               \/ probe.io.read \in {"timeout", "error"}) => probe.err # "nil"
        /\ (ReplyRead(probe.io) /\ ~probe.io.unpack) => probe.err = "invalid DNS response"
        /\ (ReplyRead(probe.io) /\ probe.io.unpack
               /\ probe.io.rcode \notin {RcodeSuccess, RcodeNameError})
              => probe.err = "DNS error response"

\* C20 witness: a probe whose reply carried NXDOMAIN returned nil.
C20_Witness ==
    /\ probe # NoProbe
    /\ probe.err = "nil"
    /\ probe.io.rcode = RcodeNameError


\* C21: after a Start that failed to resolve or bind the listen address
\* nothing has been started and nothing is started later: the health checker
\* goroutine and the accept loop are not running, no round has been
\* launched, no probe is in flight, no datagram is read, and Start is not
\* attempted again.
C21_StartFailureStartsNothing ==
    /\ [](lifecycle = "failed" =>
            /\ hc = "off"
            /\ acceptor = "off"
            /\ rounds = 0
            /\ received = 0
            /\ \A b \in Idx : probes[b] = {} /\ recorded[b] = 0)
    /\ [][lifecycle = "failed" => lifecycle' = "failed"]_vars

\* C21 witness: Start failed on a load balancer configured with two backends
\* and health checking, and one of its backends has gone down since.
C21_Witness ==
    /\ lifecycle = "failed"
    /\ hcEnabled
    /\ n = 2
    /\ \E b \in Idx : ~up[b] /\ downSince[b].at = 0 /\ downSince[b].healthy


\* C22: for every received request at most one reply datagram is written; it
\* is written only after the forward succeeded, carries exactly the bytes the
\* backend returned for that request's query, and is addressed to the sender
\* of that same request; a failed forward or a dropped query writes nothing.
C22_OneReplyToOwnSender ==
    \A k \in 1 .. received :
        LET t == tasks[k]
        IN  /\ Len(t.wrote) <= 1
            /\ t.wrote # << >> =>
                 /\ t.result = "replied"
                 /\ t.wrote[1].bytes = t.response
                 /\ t.response = AnswerOf(t.backend, Datagram(k))
                 /\ t.wrote[1].to = Sender(k)
            /\ t.result \in {"failed", "dropped"} => t.wrote = << >>
            /\ t.result = "replied" => Len(t.wrote) = 1
C22_Witness ==
    /\ received = 3
    /\ tasks[1].result = "replied" /\ tasks[1].wrote # << >>
    /\ tasks[2].result = "failed"
    /\ tasks[3].pc = "io"


\* The atomic increments the selectBackend call of task t has made so far:
\* one per attempt begun.
Advances(t) == t.i + (IF t.pc = "test" \/ t.sel >= 0 THEN 1 ELSE 0)

RECURSIVE TotalAdvances(_)
TotalAdvances(k) == IF k = 0 THEN 0 ELSE Advances(tasks[k]) + TotalAdvances(k - 1)

\* C23 as stated: each selectBackend call advances the cursor exactly once,
\* so that after m completed calls on a fresh load balancer the cursor is m.
C23_CursorCountsCalls ==
    (\A k \in 1 .. received : ~InSelect(tasks[k])) => currentIndex = Uint32(received)

\* C23: each selectBackend call advances the cursor once per attempt, in
\* every interleaving: the cursor of a fresh load balancer is the number of
\* attempts begun by all calls, a returned call has made at least one and at
\* most len(backends) increments (none with zero backends), and exactly one
\* when the first backend it tested was healthy.
C23_CursorCountsAttempts ==
    /\ currentIndex = Uint32(TotalAdvances(received))
    /\ \A k \in 1 .. received :
          ~InSelect(tasks[k]) =>
             /\ n = 0 => Advances(tasks[k]) = 0
             /\ n > 0 => Advances(tasks[k]) \in 1 .. n
             /\ tasks[k].sel >= 0 /\ Cardinality(tasks[k].tried) = 1
                  => Advances(tasks[k]) = 1

\* C23 witness: three calls that ran together have all returned and the
\* cursor has advanced more often than there were calls.
C23_Witness ==
    /\ received = 3
    /\ overlap
    /\ \A k \in 1 .. 3 : ~InSelect(tasks[k])
    /\ TotalAdvances(3) > 3
    /\ \E k \in 1 .. 3 : tasks[k].sel >= 0


\* C24: every selectBackend call terminates, having made at most
\* len(backends) atomic increments and tested at most len(backends)
\* backends, whatever the health flags are and however other calls and
\* health updates interleave; with zero backends it returns none and the
\* cursor is never touched.
C24_SelectTerminatesWithinLen ==
    /\ \A k \in 1 .. LiveRequests :
          (k <= received /\ InSelect(tasks[k])) ~> (k <= received /\ ~InSelect(tasks[k]))
    /\ [](\A k \in 1 .. received :
             /\ Advances(tasks[k]) <= n
             /\ tasks[k].i <= n
             /\ Cardinality(tasks[k].tried) <= n
             /\ n = 0 /\ ~InSelect(tasks[k]) => tasks[k].sel = None)
    /\ [](n = 0 => currentIndex = Uint32(0))

\* C24 witness: a call that made len(backends) increments among health
\* updates and a concurrent call has returned none.
C24_Witness ==
    /\ n = 2
    /\ overlap
    /\ \E k \in 1 .. received :
          /\ tasks[k].sel = None
          /\ Advances(tasks[k]) = n
    /\ \E b \in Idx : flips[b] > 0


\* C25: within one selectBackend call every backend is tested at most once:
\* the indices the call has tested are as many as the attempts it has begun,
\* also when other calls advance the cursor meanwhile.
C25_TestedAtMostOnce ==
    \A k \in 1 .. received : Cardinality(tasks[k].tried) = Advances(tasks[k])


\* C26: wraparound of the cursor is harmless: the index computed is within
\* range, and sequential selections over all-healthy backends continue in
\* configured cyclic order over the wrap from 2^32 - 1 to 0, no backend
\* repeated or skipped.
C26_WrapKeepsOrder ==
    /\ \A k \in 1 .. received :
          tasks[k].sel >= 0 => tasks[k].sel \in 0 .. n - 1
    /\ ~overlap =>
          \A k \in 2 .. received :
             tasks[k].sel >= 0 => tasks[k].sel = (tasks[k - 1].sel + 1) % n


\* C27: for each datagram received exactly one forwarding task is launched,
\* and the payload that task holds and forwards is the datagram received for
\* it, also after the accept loop has read later datagrams into its buffer.
C27_OneTaskOwnPayload ==
    /\ Len(tasks) = received
    /\ \A k \in 1 .. received :
          /\ Payload(tasks[k]) = Datagram(k)
          /\ tasks[k].pc \in {"io", "reply", "done"} /\ tasks[k].backend # None
                => tasks[k].wire = Datagram(k)

\* C27 witness: the first task forwards its own datagram while the accept
\* loop's buffer holds the third, and the second task has not yet forwarded.
C27_Witness ==
    /\ received = 3
    /\ buffer = Datagram(3)
    /\ tasks[1].pc = "io" /\ tasks[1].wire = Datagram(1)
    /\ tasks[2].pc = "forward"
    /\ tasks[3].pc = "select"


\* The next step of forwarding task k, whichever it is.
TaskStep(k) ==
    \/ SelectAdd(k)
    \/ SelectTest(k)
    \/ ForwardStart(k)
    \/ ForwardFails(k)
    \/ ForwardReturns(k)
    \/ Reply(k)

\* C28: forwarding tasks are independent of the accept loop and of each
\* other: outside shutdown the accept loop is never terminated, by no task
\* state and by no read error, and can receive the next datagram and launch
\* its task whatever the tasks are doing; every unfinished task can take its
\* own next step whatever the others are doing; and a step of one task
\* changes no other task, no health flag and nothing of the accept loop.
C28_TasksIndependent ==
    /\ [](/\ acceptor = "running"
          /\ received < MaxCalls => ENABLED AcceptQuery(MaxCalls)
          /\ \A k \in 1 .. received : tasks[k].pc # "done" => ENABLED TaskStep(k))
    /\ [][\A k \in 1 .. received :
             tasks'[k] # tasks[k] /\ received' = received =>
                /\ \A j \in 1 .. received : j # k => tasks'[j] = tasks[j]
                /\ \A b \in Idx : backends'[b].Healthy = backends[b].Healthy
                /\ acceptor' = acceptor /\ buffer' = buffer /\ readErrors' = readErrors]_vars

\* C28 witness: after two read errors, with the first task blocked on its
\* backend and the second failed, the third datagram has been received and
\* its task launched.
C28_Witness ==
    /\ readErrors = MaxReadErrors
    /\ received = 3
    /\ tasks[1].pc = "io"
    /\ tasks[2].result = "failed"
    /\ tasks[3].pc = "select"
    /\ acceptor = "running"


\* C29: after Stop has cancelled the context the accept loop eventually
\* returns, wherever it was at that moment (at its loop head, or in
\* ReadFromUDP, from which it comes back with a datagram, a timeout or the
\* error of the closed listener), and once it has returned it stays so and no
\* further forwarding task is launched.
C29_AcceptLoopTerminates ==
    /\ Cancelled ~> acceptor = "exited"
    /\ [][acceptor = "exited" =>
             /\ acceptor' = "exited"
             /\ received' = received
             /\ Len(tasks') = Len(tasks)]_vars

\* C29 witness: the accept loop was inside ReadFromUDP when Stop cancelled
\* the context, launched one more task from there, and has returned.
C29_Witness ==
    /\ acceptor = "exited"
    /\ Cancelled
    /\ \E k \in 1 .. received : k \notin atStop /\ tasks[k].pc = "select"


\* C30: when Stop finishes through the graceful branch the accept loop has
\* returned and every forwarding task ever launched has finished, at that
\* moment and ever after; the wait cannot complete while the accept loop has
\* not returned, so no task is launched once the graceful branch can be taken.
C30_GracefulMeansAllReturned ==
    /\ [][shutdown # "complete" /\ shutdown' = "complete" =>
             /\ acceptor = "exited"
             /\ \A k \in 1 .. received : tasks[k].pc = "done"
             /\ received' = received /\ tasks' = tasks]_vars
    /\ [](acceptor # "exited" => ~ENABLED StopDone)
    /\ [](shutdown = "complete" =>
             /\ acceptor = "exited"
             /\ Len(tasks) = received
             /\ \A k \in 1 .. received : tasks[k].pc = "done")

\* C30 witness: Stop took the graceful branch after two requests, one of
\* them still in flight when Stop was called.
C30_Witness ==
    /\ shutdown = "complete"
    /\ received = 2
    /\ atStop # {}
    /\ acceptor = "exited"


HealthFields(b) == <<b.Healthy, b.ConsecutiveFails, b.ConsecutiveSuccess, b.LastCheck>>

\* C32: the prober never mutates Backend state. The step in which a
\* HealthCheck call returns, with nil or with an error, leaves every field
\* of every backend as it was; Healthy, ConsecutiveFails, ConsecutiveSuccess
\* and LastCheck change only in the step in which checkBackend records the
\* outcome, and then to what RecordHealthCheck makes of the backend.
C32_ProberLeavesBackend ==
    /\ [][\A b \in Idx : \A p \in probes[b] :
             p.phase = "probing" /\ p \notin probes'[b] => backends' = backends]_vars
    /\ [][\A b \in Idx :
             HealthFields(backends'[b]) # HealthFields(backends[b]) =>
                /\ recorded'[b] = recorded[b] + 1
                /\ \E p \in probes[b] \ probes'[b] :
                      /\ p.phase \in {"ok", "fail"}
                      /\ backends'[b] = RecordHealthCheck(backends[b], p.phase = "ok",
                                                          failThreshold, successThreshold).b]_vars

\* C32 witness: a HealthCheck has returned an error for a backend that has
\* been forwarded to, and the backend still has the health fields it was
\* created with.
C32_Witness ==
    \E b \in Idx : \E p \in probes[b] :
        /\ p.phase = "fail"
        /\ backends[b].TotalQueries = 1
        /\ HealthFields(backends[b]) = HealthFields(NewBackend)
        /\ backends[b].LastFail = ZeroTime


\* C33: the monitor launches a new probe of a backend only after that
\* backend's probe of the previous round has finished: at most one probe per
\* backend is in flight at any time, and the outcomes of a backend are
\* recorded in the order in which their rounds were launched.
C33_OneProbePerBackendInFlight ==
    /\ [](\A b \in Idx : Cardinality(probes[b]) <= 1)
    /\ [][\A b \in Idx : \A p \in probes[b] \ probes'[b] :
             p.phase \in {"ok", "fail"} => \A q \in probes'[b] : q.round > p.round]_vars


\* C34: ConsecutiveFails and ConsecutiveSuccess are never negative and at
\* most one of them is non-zero in every reachable state; recording a
\* success leaves ConsecutiveFails = 0 and ConsecutiveSuccess one higher,
\* recording a failure leaves ConsecutiveSuccess = 0 and ConsecutiveFails
\* one higher.
C34_ConsecutiveCountersExclusive ==
    /\ [](\A b \in Idx :
             /\ backends[b].ConsecutiveFails >= 0
             /\ backends[b].ConsecutiveSuccess >= 0
             /\ backends[b].ConsecutiveFails = 0 \/ backends[b].ConsecutiveSuccess = 0)
    /\ [][\A b \in Idx : \A p \in probes[b] \ probes'[b] :
             /\ p.phase = "ok" =>
                   /\ backends'[b].ConsecutiveFails = 0
                   /\ backends'[b].ConsecutiveSuccess = backends[b].ConsecutiveSuccess + 1
             /\ p.phase = "fail" =>
                   /\ backends'[b].ConsecutiveSuccess = 0
                   /\ backends'[b].ConsecutiveFails = backends[b].ConsecutiveFails + 1]_vars

\* C34 witness: a success has been recorded after failures (ConsecutiveFails
\* back to 0, one success counted) on a backend that is still unhealthy.
C34_Witness ==
    \E b \in Idx :
        /\ ~backends[b].Healthy
        /\ backends[b].ConsecutiveFails = 0
        /\ backends[b].ConsecutiveSuccess = 1
        /\ successThreshold > 1
        /\ recorded[b] > failThreshold
        /\ run[b].ok /\ run[b].len = 1


\* C35: RecordHealthCheck is the only operation of Backend that can change
\* Healthy: whenever a call changes the flag, it is a recorded probe outcome
\* that has met its threshold (ConsecutiveFails >= failThreshold when the
\* flag falls, ConsecutiveSuccess >= successThreshold when it rises).
C35_HealthyOnlyByThresholds ==
    [][backends'[0].Healthy # backends[0].Healthy =>
          /\ recorded'[0] = recorded[0] + 1
          /\ IF backends'[0].Healthy
             THEN backends'[0].ConsecutiveSuccess >= successThreshold
             ELSE backends'[0].ConsecutiveFails >= failThreshold]_vars


\* C36: forwarding never changes health. A step of a forwarding task
\* (MarkQueryAttempt and MarkFailure inside ForwardQuery included) leaves
\* Healthy, ConsecutiveFails and ConsecutiveSuccess of every backend as they
\* were, however many forwards to the backend have failed; these fields
\* change only in a step that records a probe outcome.
C36_ForwardingLeavesHealth ==
    /\ [][\A k \in 1 .. received :
             tasks'[k] # tasks[k] =>
                \A b \in Idx : HealthFields(backends'[b]) = HealthFields(backends[b])]_vars
    /\ [][\A b \in Idx :
             \/ /\ backends'[b].Healthy = backends[b].Healthy
                /\ backends'[b].ConsecutiveFails = backends[b].ConsecutiveFails
                /\ backends'[b].ConsecutiveSuccess = backends[b].ConsecutiveSuccess
             \/ recorded'[b] = recorded[b] + 1]_vars

\* C36 witness: two forwards to the same backend have failed, as many as or
\* more than failureThreshold, no probe outcome has been recorded on it, and
\* the backend is still healthy.
C36_Witness ==
    \E b \in Idx :
        /\ received = 2
        /\ tasks[1].result = "failed" /\ tasks[1].backend = b
        /\ tasks[2].result = "failed" /\ tasks[2].backend = b /\ tasks[2].sel = b
        /\ backends[b].TotalFailures = 2
        /\ failThreshold <= 2
        /\ recorded[b] = 0
        /\ backends[b].Healthy


\* C37: every backend is created healthy with all counters zero; with health
\* checking disabled no monitor is started, every backend stays healthy in
\* every reachable state and no selectBackend call on a non-empty backend
\* list returns none, whatever the forwards do; with health checking enabled
\* a backend stays healthy from startup until a run of failureThreshold
\* failed probes has been recorded on it.
C37_HealthyFromStart ==
    /\ [](lifecycle = "new" =>
             \A b \in Idx :
                /\ backends[b].Healthy
                /\ backends[b].ConsecutiveFails = 0 /\ backends[b].ConsecutiveSuccess = 0
                /\ backends[b].TotalQueries = 0 /\ backends[b].TotalFailures = 0
                /\ backends[b].LastCheck = ZeroTime /\ backends[b].LastFail = ZeroTime)
    /\ [](~hcEnabled =>
             /\ hc = "off" /\ rounds = 0
             /\ \A b \in Idx : backends[b].Healthy /\ probes[b] = {} /\ recorded[b] = 0
             /\ \A k \in 1 .. received :
                   n > 0 /\ ~InSelect(tasks[k]) => tasks[k].sel \in Idx)
    /\ [](\A b \in Idx : flips[b] = 0 => backends[b].Healthy)
    /\ [][\A b \in Idx :
             flips[b] = 0 /\ flips'[b] = 1 =>
                /\ ~run'[b].ok
                /\ run'[b].len >= failThreshold
                /\ recorded'[b] >= failThreshold]_vars

\* C37 witness: health checking is disabled, the only request was forwarded
\* to a backend that is down and failed, and the backend is still healthy.
C37_Witness ==
    /\ ~hcEnabled
    /\ received = 1
    /\ tasks[1].result = "failed"
    /\ \E b \in Idx : b = tasks[1].backend /\ ~up[b] /\ backends[b].Healthy
                        /\ backends[b].TotalFailures = 1


\* C38: for every backend TotalFailures <= TotalQueries in every reachable
\* state, neither counter ever decreases, a forward that fails has counted
\* its own attempt before, and recording a probe outcome, failed or not,
\* leaves both counters as they were.
C38_FailuresWithinQueries ==
    /\ [](\A b \in Idx : backends[b].TotalFailures <= backends[b].TotalQueries)
    /\ [][\A b \in Idx :
             /\ backends'[b].TotalQueries >= backends[b].TotalQueries
             /\ backends'[b].TotalFailures >= backends[b].TotalFailures
             /\ recorded'[b] # recorded[b] =>
                   /\ backends'[b].TotalQueries = backends[b].TotalQueries
                   /\ backends'[b].TotalFailures = backends[b].TotalFailures]_vars
    /\ [][\A b \in Idx :
             backends'[b].TotalFailures > backends[b].TotalFailures =>
                \E k \in 1 .. received :
                   /\ tasks[k].backend = b /\ tasks[k].pc = "io"
                   /\ tasks'[k].result = "failed"
                   /\ backends[b].TotalQueries >
                         Cardinality({j \in 1 .. received :
                                         tasks[j].backend = b /\ tasks[j].result = "failed"})]_vars

\* C38 witness: two concurrent forwards to one backend have both failed
\* (TotalFailures = TotalQueries = 2) and a failed probe has been recorded
\* on the same backend.
C38_Witness ==
    \E b \in Idx :
        /\ backends[b].TotalQueries = 2
        /\ backends[b].TotalFailures = 2
        /\ backends[b].LastCheck = AtCheck
        /\ backends[b].ConsecutiveFails >= 1
        /\ overlap


\* C39: Stop cancels the context before it closes the listener, so a read
\* that fails on the closed listener always finds the cancellation: the
\* accept loop returns from it, and neither logs a read error nor goes round
\* its loop again because of it (it leaves a read on the closed listener
\* only by returning or with a datagram that had arrived).
C39_ClosedReadEndsLoop ==
    /\ [](ListenerClosed => Cancelled)
    /\ [][lifecycle' = "closed" /\ lifecycle # "closed" => lifecycle = "cancelled"]_vars
    /\ [](acceptor = "reading" /\ ListenerClosed => ENABLED AcceptorExit)
    /\ [][acceptor = "reading" /\ ListenerClosed /\ acceptor' # acceptor =>
             \/ acceptor' = "exited" /\ received' = received
             \/ acceptor' = "running" /\ received' = received + 1]_vars
    /\ [][readErrors' # readErrors => ~Cancelled /\ ~ListenerClosed]_vars

\* C39 witness: after read errors logged while running, Stop has cancelled
\* the context and closed the listener under a read in progress, which can
\* only fail now (no further datagram is accepted).
C39_Witness ==
    /\ readErrors = MaxReadErrors
    /\ acceptor = "reading"
    /\ lifecycle = "closed"
    /\ received = StopRequests


\* The tasks launched after lb.cancel().
LateTasks == {k \in 1 .. received : tasks[k].late}

\* C40: after cancellation has been signalled the accept loop launches at
\* most one further forwarding task, and only for a datagram whose read was
\* in progress at the cancellation; every task is launched while the accept
\* loop still holds its own wait-group count and is itself counted (not yet
\* returned) from the moment it is launched.
C40_AtMostOneLateTask ==
    /\ [](Cardinality(LateTasks) <= 1)
    /\ [][Cancelled /\ Len(tasks') > Len(tasks) =>
             /\ acceptor = "reading"
             /\ LateTasks = {}
             /\ Len(tasks') = Len(tasks) + 1]_vars
    /\ [][Len(tasks') > Len(tasks) =>
             /\ acceptor # "exited" /\ acceptor' # "exited"
             /\ tasks'[Len(tasks')].pc # "done"
             /\ shutdown' # "complete"
             /\ received' = Len(tasks')]_vars

\* C40 witness: the accept loop has launched one task after the
\* cancellation and has returned, with a task launched before still running.
C40_Witness ==
    /\ Cardinality(LateTasks) = 1
    /\ acceptor = "exited"
    /\ received = StopRequests
    /\ atStop # {}
    /\ \E k \in LateTasks : tasks[k].pc # "done"

====
